---- MODULE Spec2Model ----
(***************************************************************************)
(* MK Finder MVP: the free-text query extractor (parse_query_to_filters),  *)
(* the validation rule (_is_valid_consulta), the matcher (_match) and the  *)
(* /nlu/parse and /buscar handlers of src/main.py.                         *)
(*                                                                         *)
(* Encoding of Python values:                                              *)
(*   Optional[T]   None is <<>>, a value v is <<v>>                        *)
(*   str (text)    a sequence of one-character strings                     *)
(*   str (enum)    a TLA+ string ("venta", "USD", a canonical district)    *)
(*   float / int   an exact decimal [m |-> mantissa, e |-> decimals],      *)
(*                 value m / 10^e, kept normalised (no trailing zero)      *)
(*   dict          a function whose DOMAIN is the set of present keys      *)
(***************************************************************************)
EXTENDS Integers, Sequences, FiniteSets, TLC

VARIABLES pc, req, data, resp, served

vars == <<pc, req, data, resp, served>>

\* ------------------------------------------------------------------ values

None == <<>>

Some(v) == <<v>>

RECURSIVE Pow10(_)
Pow10(n) == IF n = 0 THEN 1 ELSE 10 * Pow10(n - 1)

RECURSIVE Norm(_, _)
Norm(m, e) ==
  IF e > 0 /\ m % 10 = 0 THEN Norm(m \div 10, e - 1) ELSE [m |-> m, e |-> e]

\* the number m / 10^e
Dec(m, e) == Norm(m, e)

Num(n) == Dec(n, 0)

NumLt(a, b) ==
  LET E == IF a.e > b.e THEN a.e ELSE b.e
  IN  a.m * Pow10(E - a.e) < b.m * Pow10(E - b.e)

NumMin(a, b) == IF NumLt(b, a) THEN b ELSE a

NumMax(a, b) == IF NumLt(a, b) THEN b ELSE a

\* Python truthiness of an Optional number: None and 0 are falsy
TruthyNum(o) == o # None /\ o[1].m # 0

\* faulty variant of TruthyStr: "is not None" in place of truthiness
TruthyStr_NotNone(o) == o # None

\* Python truthiness of an Optional str / Optional list: None, "" and [] are falsy
TruthyStr(o) == o # None /\ o[1] # ""

TruthyList(o) == o # None /\ o[1] # <<>>

\* x in lst
InList(x, lst) == \E i \in 1..Len(lst) : lst[i] = x

\* dict.get(key): None when the key is absent
Get(prop, key) == IF key \in DOMAIN prop THEN Some(prop[key]) ELSE None

\* (prop.get(key) or 0) for a numeric attribute
GetOr0(prop, key) ==
  IF TruthyNum(Get(prop, key)) THEN prop[key] ELSE Num(0)

\* ----------------------------------------------------- ConsultaEstructurada

\* ConsultaEstructurada(): every field at its default
ConsultaEstructurada ==
  [ operacion       |-> None,
    distritos       |-> <<>>,
    tipo            |-> None,
    precio_min      |-> None,
    precio_max      |-> None,
    moneda          |-> None,
    area_min_m2     |-> None,
    area_max_m2     |-> None,
    dormitorios_min |-> None,
    dormitorios_max |-> None,
    banos_min       |-> None,
    banos_max       |-> None,
    cocheras_min    |-> None,
    ascensor        |-> None,
    terraza         |-> None,
    amoblado        |-> None,
    pet_friendly    |-> None ]

\* ---------------------------------------------------------------- MOCK_DATA

MOCK_DATA ==
  << [ id_fuente |-> "urbania:001", fuente |-> "urbania",
       titulo |-> "Dúplex frente a parque",
       url_aviso |-> "https://urbania.pe/aviso/001",
       operacion |-> "venta", tipo |-> "departamento",
       precio |-> Num(205000), moneda |-> "USD", area_total_m2 |-> Num(84),
       dormitorios |-> Num(3), banos |-> Num(2), cocheras |-> Num(1),
       ascensor |-> TRUE, terraza |-> TRUE, distrito |-> "Santiago de Surco" ],
     [ id_fuente |-> "properati:1001", fuente |-> "properati",
       titulo |-> "Flat céntrico con ascensor",
       url_aviso |-> "https://properati.pe/prop/1001",
       operacion |-> "venta", tipo |-> "departamento",
       precio |-> Num(240000), moneda |-> "USD", area_total_m2 |-> Num(72),
       dormitorios |-> Num(2), banos |-> Num(2), cocheras |-> Num(1),
       ascensor |-> TRUE, terraza |-> FALSE, distrito |-> "Miraflores" ],
     [ id_fuente |-> "urbania:777", fuente |-> "urbania",
       titulo |-> "Departamento amoblado vista ciudad",
       url_aviso |-> "https://urbania.pe/aviso/777",
       operacion |-> "alquiler", tipo |-> "departamento",
       precio |-> Num(2500), moneda |-> "PEN", area_total_m2 |-> Num(95),
       dormitorios |-> Num(3), banos |-> Num(2), cocheras |-> Num(1),
       ascensor |-> TRUE, terraza |-> FALSE, distrito |-> "San Borja" ] >>

\* ------------------------------------------------------- _is_valid_consulta

\* v not in (None, [], "") for the value v of the field f
NotBlank(c, f) ==
  CASE f = "tipo"      -> c[f] # None /\ c[f] # Some(<<>>)
    [] f = "operacion" -> c[f] # None /\ c[f] # Some("")
    [] OTHER           -> c[f] # None

\* faulty variant of is_valid_consulta: every filter passes the gate
is_valid_always(c) == TRUE

\* faulty variant of ExtraFields: the currency counted as a signal
ExtraFields_WithMoneda ==
  { "tipo", "precio_min", "precio_max", "area_min_m2", "area_max_m2",
    "dormitorios_min", "dormitorios_max", "banos_min", "banos_max",
    "cocheras_min", "ascensor", "terraza", "amoblado", "pet_friendly",
    "operacion", "moneda" }

ExtraFields ==
  { "tipo", "precio_min", "precio_max", "area_min_m2", "area_max_m2",
    "dormitorios_min", "dormitorios_max", "banos_min", "banos_max",
    "cocheras_min", "ascensor", "terraza", "amoblado", "pet_friendly",
    "operacion" }

is_valid_consulta(c) ==
  IF c.distritos = <<>>
    THEN FALSE
    ELSE \E f \in ExtraFields : NotBlank(c, f)

\* ------------------------------------------------------------------- _match

\* price < c.precio_min
below_min(price, c) == NumLt(price, c.precio_min[1])

\* faulty variant of above_max: price >= c.precio_max
above_max_or_equal(price, c) == ~NumLt(price, c.precio_max[1])

\* price > c.precio_max
above_max(price, c) == NumLt(c.precio_max[1], price)

\* The outcome of _match(prop, c): "True", "False", or "TypeError" when the
\* comparison of a missing price (None) with a float bound raises.
match(prop, c) ==
  IF ~InList(Get(prop, "distrito"), [i \in 1..Len(c.distritos) |-> Some(c.distritos[i])])
    THEN "False"
  ELSE IF TruthyStr(c.operacion) /\ Get(prop, "operacion") # c.operacion
    THEN "False"
  ELSE IF TruthyList(c.tipo)
          /\ ~InList(Get(prop, "tipo"), [i \in 1..Len(c.tipo[1]) |-> Some(c.tipo[1][i])])
    THEN "False"
  ELSE LET price == Get(prop, "precio") IN
  IF TruthyNum(c.precio_min) /\ price = None
    THEN "TypeError"
  ELSE IF TruthyNum(c.precio_min) /\ below_min(price[1], c)
    THEN "False"
  ELSE IF TruthyNum(c.precio_max) /\ price = None
    THEN "TypeError"
  ELSE IF TruthyNum(c.precio_max) /\ above_max(price[1], c)
    THEN "False"
  ELSE IF TruthyStr(c.moneda) /\ Get(prop, "moneda") # c.moneda
    THEN "False"
  ELSE LET area == GetOr0(prop, "area_total_m2") IN
  IF TruthyNum(c.area_min_m2) /\ NumLt(area, c.area_min_m2[1])
    THEN "False"
  ELSE IF TruthyNum(c.area_max_m2) /\ NumLt(c.area_max_m2[1], area)
    THEN "False"
  ELSE IF TruthyNum(c.dormitorios_min)
          /\ NumLt(GetOr0(prop, "dormitorios"), c.dormitorios_min[1])
    THEN "False"
  ELSE IF TruthyNum(c.banos_min) /\ NumLt(GetOr0(prop, "banos"), c.banos_min[1])
    THEN "False"
  ELSE IF TruthyNum(c.cocheras_min)
          /\ NumLt(GetOr0(prop, "cocheras"), c.cocheras_min[1])
    THEN "False"
  ELSE IF c.ascensor = Some(TRUE) /\ Get(prop, "ascensor") # Some(TRUE)
    THEN "False"
  ELSE IF c.terraza = Some(TRUE) /\ Get(prop, "terraza") # Some(TRUE)
    THEN "False"
  ELSE IF c.amoblado = Some(TRUE) /\ Get(prop, "amoblado") # Some(TRUE)
    THEN "False"
  ELSE IF c.pet_friendly = Some(TRUE) /\ Get(prop, "pet_friendly") # Some(TRUE)
    THEN "False"
  ELSE "True"

\* --------------------------------------------------------------------- text

\* A text is a sequence of characters, each a one-character string.

Digits == <<"0", "1", "2", "3", "4", "5", "6", "7", "8", "9">>

IsDigit(ch) == \E i \in 1..Len(Digits) : Digits[i] = ch

DigitVal(ch) == (CHOOSE i \in 1..Len(Digits) : Digits[i] = ch) - 1

\* The characters of a text are those of Latin-1 (code points 0 to 255); the
\* classes below are the ones Python gives these characters.

\* the letters c with c.lower() # c
UpperCase ==
  <<"A", "B", "C", "D", "E", "F", "G", "H", "I", "J", "K", "L", "M", "N",
    "O", "P", "Q", "R", "S", "T", "U", "V", "W", "X", "Y", "Z", "Á", "É",
    "Í", "Ó", "Ú", "Ñ", "À", "Â", "Ã", "Ä", "Å", "Æ", "Ç", "È", "Ê", "Ë",
    "Ì", "Î", "Ï", "Ð", "Ò", "Ô", "Õ", "Ö", "Ø", "Ù", "Û", "Ü", "Ý", "Þ">>

\* their lower-case letters, in the same order
LowerCase ==
  <<"a", "b", "c", "d", "e", "f", "g", "h", "i", "j", "k", "l", "m", "n",
    "o", "p", "q", "r", "s", "t", "u", "v", "w", "x", "y", "z", "á", "é",
    "í", "ó", "ú", "ñ", "à", "â", "ã", "ä", "å", "æ", "ç", "è", "ê", "ë",
    "ì", "î", "ï", "ð", "ò", "ô", "õ", "ö", "ø", "ù", "û", "ü", "ý", "þ">>

\* the lower-case letter of each letter of UpperCase
Lower ==
  [ ch \in { UpperCase[i] : i \in 1..Len(UpperCase) } |->
      LowerCase[CHOOSE i \in 1..Len(UpperCase) : UpperCase[i] = ch] ]

\* str.lower() on one character
LowerChar(ch) == IF ch \in DOMAIN Lower THEN Lower[ch] ELSE ch

\* faulty variant of lower: the text left as typed
lower_omitted(texto) == texto

\* texto.lower()
lower(texto) == [i \in 1..Len(texto) |-> LowerChar(texto[i])]

\* the regex class \w of a str pattern: the underscore and every character
\* that is alphanumeric for Unicode, among them the letters without a capital
\* in Latin-1 and the superscripts and fractions
IsWordChar(ch) ==
  \/ IsDigit(ch)
  \/ \E i \in 1..Len(LowerCase) : LowerCase[i] = ch \/ UpperCase[i] = ch
  \/ ch \in {"_", "ª", "µ", "º", "ß", "ÿ", "²", "³", "¹", "¼", "½", "¾"}

\* the regex class \s of a str pattern and str.isspace(): blank, tab, line
\* feed, carriage return, form feed, then (written as the characters
\* themselves) vertical tab, the separators 1C to 1F, next line 85 and the
\* no-break space A0
IsSpace(ch) ==
  ch \in {" ", "\t", "\n", "\r", "\f", "", "", "", "", "", "", " "}

\* the character at position i, "" outside the text
At(t, i) == IF i \in 1..Len(t) THEN t[i] ELSE ""

\* the literal w occurs in t at position i
MatchAt(t, i, w) ==
  /\ i >= 1
  /\ i + Len(w) - 1 <= Len(t)
  /\ \A k \in 1..Len(w) : t[i + k - 1] = w[k]

\* w in t
Contains(t, w) == \E i \in 1..Len(t) : MatchAt(t, i, w)

\* the regex assertion \b between positions i - 1 and i
WordBoundary(t, i) == IsWordChar(At(t, i - 1)) # IsWordChar(At(t, i))

\* the position after the regex \s* matched greedily from i
RECURSIVE SkipSpaces(_, _)
SkipSpaces(t, i) == IF IsSpace(At(t, i)) THEN SkipSpaces(t, i + 1) ELSE i

\* t[i..j-1]
Slice(t, i, j) == SubSeq(t, i, j - 1)

Min(S) == CHOOSE x \in S : \A y \in S : x <= y

\* faulty variant of SearchWord: the key found inside longer words too
SearchWord_substring(t, key) == Contains(t, key)

\* re.search(rf"\b{re.escape(key)}\b", t)
SearchWord(t, key) ==
  \E i \in 1..Len(t) :
    /\ WordBoundary(t, i)
    /\ MatchAt(t, i, key)
    /\ WordBoundary(t, i + Len(key))

\* ------------------------------------------------------------ DISTRITOS_MAP

\* synonym -> canonical name, in the order of the dict
DISTRITOS_MAP ==
  <<
    [key |-> <<"s", "u", "r", "c", "o">>, canon |-> "Santiago de Surco"],
    [key |-> <<"s", "a", "n", "t", "i", "a", "g", "o", " ", "d", "e", " ", "s", "u", "r", "c", "o">>, canon |-> "Santiago de Surco"],
    [key |-> <<"m", "i", "r", "a", "f", "l", "o", "r", "e", "s">>, canon |-> "Miraflores"],
    [key |-> <<"s", "a", "n", " ", "i", "s", "i", "d", "r", "o">>, canon |-> "San Isidro"],
    [key |-> <<"b", "a", "r", "r", "a", "n", "c", "o">>, canon |-> "Barranco"],
    [key |-> <<"l", "a", " ", "m", "o", "l", "i", "n", "a">>, canon |-> "La Molina"],
    [key |-> <<"s", "a", "n", " ", "b", "o", "r", "j", "a">>, canon |-> "San Borja"],
    [key |-> <<"s", "a", "n", " ", "m", "i", "g", "u", "e", "l">>, canon |-> "San Miguel"],
    [key |-> <<"m", "a", "g", "d", "a", "l", "e", "n", "a">>, canon |-> "Magdalena del Mar"],
    [key |-> <<"m", "a", "g", "d", "a", "l", "e", "n", "a", " ", "d", "e", "l", " ", "m", "a", "r">>, canon |-> "Magdalena del Mar"],
    [key |-> <<"j", "e", "s", "u", "s", " ", "m", "a", "r", "i", "a">>, canon |-> "Jesús María"],
    [key |-> <<"j", "e", "s", "ú", "s", " ", "m", "a", "r", "í", "a">>, canon |-> "Jesús María"],
    [key |-> <<"l", "i", "n", "c", "e">>, canon |-> "Lince"],
    [key |-> <<"p", "u", "e", "b", "l", "o", " ", "l", "i", "b", "r", "e">>, canon |-> "Pueblo Libre"],
    [key |-> <<"s", "a", "n", " ", "l", "u", "i", "s">>, canon |-> "San Luis"],
    [key |-> <<"c", "e", "r", "c", "a", "d", "o">>, canon |-> "Lima"],
    [key |-> <<"l", "i", "m", "a">>, canon |-> "Lima"],
    [key |-> <<"b", "r", "e", "ñ", "a">>, canon |-> "Breña"],
    [key |-> <<"r", "i", "m", "a", "c">>, canon |-> "Rímac"],
    [key |-> <<"r", "í", "m", "a", "c">>, canon |-> "Rímac"],
    [key |-> <<"c", "h", "o", "r", "r", "i", "l", "l", "o", "s">>, canon |-> "Chorrillos"],
    [key |-> <<"s", "u", "r", "q", "u", "i", "l", "l", "o">>, canon |-> "Surquillo"],
    [key |-> <<"a", "t", "e">>, canon |-> "Ate"],
    [key |-> <<"s", "a", "n", "t", "a", " ", "a", "n", "i", "t", "a">>, canon |-> "Santa Anita"],
    [key |-> <<"l", "a", " ", "v", "i", "c", "t", "o", "r", "i", "a">>, canon |-> "La Victoria"],
    [key |-> <<"s", "j", "m">>, canon |-> "San Juan de Miraflores"],
    [key |-> <<"s", "a", "n", " ", "j", "u", "a", "n", " ", "d", "e", " ", "m", "i", "r", "a", "f", "l", "o", "r", "e", "s">>, canon |-> "San Juan de Miraflores"],
    [key |-> <<"v", "e", "s">>, canon |-> "Villa El Salvador"],
    [key |-> <<"v", "i", "l", "l", "a", " ", "e", "l", " ", "s", "a", "l", "v", "a", "d", "o", "r">>, canon |-> "Villa El Salvador"],
    [key |-> <<"v", "m", "t">>, canon |-> "Villa María del Triunfo"],
    [key |-> <<"v", "i", "l", "l", "a", " ", "m", "a", "r", "i", "a", " ", "d", "e", "l", " ", "t", "r", "i", "u", "n", "f", "o">>, canon |-> "Villa María del Triunfo"],
    [key |-> <<"c", "o", "m", "a", "s">>, canon |-> "Comas"],
    [key |-> <<"l", "o", "s", " ", "o", "l", "i", "v", "o", "s">>, canon |-> "Los Olivos"],
    [key |-> <<"s", "a", "n", " ", "m", "a", "r", "t", "i", "n", " ", "d", "e", " ", "p", "o", "r", "r", "e", "s">>, canon |-> "San Martín de Porres"],
    [key |-> <<"s", "a", "n", " ", "m", "a", "r", "t", "í", "n", " ", "d", "e", " ", "p", "o", "r", "r", "e", "s">>, canon |-> "San Martín de Porres"],
    [key |-> <<"i", "n", "d", "e", "p", "e", "n", "d", "e", "n", "c", "i", "a">>, canon |-> "Independencia"],
    [key |-> <<"c", "a", "r", "a", "b", "a", "y", "l", "l", "o">>, canon |-> "Carabayllo"],
    [key |-> <<"p", "u", "e", "n", "t", "e", " ", "p", "i", "e", "d", "r", "a">>, canon |-> "Puente Piedra"],
    [key |-> <<"c", "a", "l", "l", "a", "o">>, canon |-> "Callao"],
    [key |-> <<"l", "a", " ", "p", "e", "r", "l", "a">>, canon |-> "La Perla"],
    [key |-> <<"b", "e", "l", "l", "a", "v", "i", "s", "t", "a">>, canon |-> "Bellavista"],
    [key |-> <<"l", "a", " ", "p", "u", "n", "t", "a">>, canon |-> "La Punta"] >>

\* the canonical names in the order sorted() gives them
SortedCanon ==
  <<"Ate", "Barranco", "Bellavista", "Breña",
    "Callao", "Carabayllo", "Chorrillos", "Comas",
    "Independencia", "Jesús María", "La Molina", "La Perla",
    "La Punta", "La Victoria", "Lima", "Lince",
    "Los Olivos", "Magdalena del Mar", "Miraflores", "Pueblo Libre",
    "Puente Piedra", "Rímac", "San Borja", "San Isidro",
    "San Juan de Miraflores", "San Luis", "San Martín de Porres", "San Miguel",
    "Santa Anita", "Santiago de Surco", "Surquillo", "Villa El Salvador",
    "Villa María del Triunfo" >>

\* result.distritos: the canonical names of the keys found as whole words,
\* without duplicates, sorted
distritos_detectados(t) ==
  SelectSeq(SortedCanon,
            LAMBDA canon : \E n \in 1..Len(DISTRITOS_MAP) :
                             /\ DISTRITOS_MAP[n].canon = canon
                             /\ SearchWord(t, DISTRITOS_MAP[n].key))

\* -------------------------------------------------------------------- TIPOS

TIPOS ==
  <<
    [word |-> <<"d", "e", "p", "a", "r", "t", "a", "m", "e", "n", "t", "o">>, norm |-> "departamento"],
    [word |-> <<"c", "a", "s", "a">>, norm |-> "casa"],
    [word |-> <<"d", "ú", "p", "l", "e", "x">>, norm |-> "dúplex"],
    [word |-> <<"d", "u", "p", "l", "e", "x">>, norm |-> "dúplex"],
    [word |-> <<"f", "l", "a", "t">>, norm |-> "flat"],
    [word |-> <<"o", "f", "i", "c", "i", "n", "a">>, norm |-> "oficina"],
    [word |-> <<"l", "o", "c", "a", "l">>, norm |-> "local"],
    [word |-> <<"t", "e", "r", "r", "e", "n", "o">>, norm |-> "terreno"] >>

SortedTipos == <<"casa", "departamento", "dúplex", "flat", "local", "oficina", "terreno">>

\* re.search(rf"\b{re.escape(tp)}s?\b", t)
SearchTipo(t, tp) ==
  \E i \in 1..Len(t) :
    /\ WordBoundary(t, i)
    /\ MatchAt(t, i, tp)
    /\ \/ At(t, i + Len(tp)) = "s" /\ WordBoundary(t, i + Len(tp) + 1)
       \/ WordBoundary(t, i + Len(tp))

\* result.tipo: None when no type word is found, else the normalised types,
\* without duplicates, sorted
tipos_detectados(t) ==
  LET found == SelectSeq(SortedTipos,
                         LAMBDA norm : \E n \in 1..Len(TIPOS) :
                                         /\ TIPOS[n].norm = norm
                                         /\ SearchTipo(t, TIPOS[n].word))
  IN  IF found = <<>> THEN None ELSE Some(found)

\* ---------------------------------------------------------------- operacion

RentalWords == {<<"a", "l", "q", "u", "i", "l", "e", "r">>,
                <<"a", "l", "q", "u", "i", "l", "o">>,
                <<"a", "l", "q", "u", "i", "l", "a", "r">>}

SaleWords == {<<"v", "e", "n", "t", "a">>,
              <<"c", "o", "m", "p", "r", "a", "r">>,
              <<"c", "o", "m", "p", "r", "o">>,
              <<"v", "e", "n", "d", "o">>}

\* faulty variant of operacion_detectada: sale words looked for first
operacion_venta_primero(t) ==
  IF \E w \in SaleWords : Contains(t, w) THEN Some("venta")
  ELSE IF \E w \in RentalWords : Contains(t, w) THEN Some("alquiler")
  ELSE None

\* rental words are looked for first, as substrings
operacion_detectada(t) ==
  IF \E w \in RentalWords : Contains(t, w) THEN Some("alquiler")
  ELSE IF \E w \in SaleWords : Contains(t, w) THEN Some("venta")
  ELSE None

\* ------------------------------------------------------------------ numbers

\* the characters of the regex class [\d\.,]
IsNumChar(ch) == IsDigit(ch) \/ ch \in {".", ","}

\* the position after the longest run of [\d\.,] from i
RECURSIVE NumRunEnd(_, _)
NumRunEnd(t, i) == IF IsNumChar(At(t, i)) THEN NumRunEnd(t, i + 1) ELSE i

\* the position after the longest run of digits from i
RECURSIVE DigitRunEnd(_, _)
DigitRunEnd(t, i) == IF IsDigit(At(t, i)) THEN DigitRunEnd(t, i + 1) ELSE i

\* the natural number a string of digits denotes (0 for the empty string)
RECURSIVE DigitsToNat(_)
DigitsToNat(s) ==
  IF s = <<>> THEN 0
  ELSE 10 * DigitsToNat(SubSeq(s, 1, Len(s) - 1)) + DigitVal(s[Len(s)])

\* float(s) for digits with at most one decimal point, written with the
\* character point: the point may be the last character
float_of(s, point) ==
  LET at == { i \in 1..Len(s) : s[i] = point }
  IN  IF at = {} THEN Dec(DigitsToNat(s), 0)
      ELSE LET p == Min(at)
           IN  Dec(DigitsToNat(SubSeq(s, 1, p - 1) \o SubSeq(s, p + 1, Len(s))),
                   Len(s) - p)

\* num_str.replace(".", "")
without_dots(num_str) == SelectSeq(num_str, LAMBDA ch : ch # ".")

\* _to_float raises ValueError: after the dots are removed and the commas are
\* turned into decimal points, float() sees more than one decimal point
to_float_raises(num_str) ==
  Cardinality({ i \in 1..Len(num_str) : num_str[i] = "," }) > 1

\* _to_float(num_str) when it does not raise
to_float(num_str) == float_of(without_dots(num_str), ",")

\* _norm_moneda(token)
norm_moneda(token) ==
  LET t == lower(token)
  IN  IF t \in {<<"$">>, <<"u", "s", "d">>, <<"d", "o", "l", "a", "r", "e", "s">>, <<"d", "ó", "l", "a", "r", "e", "s">>}
        THEN Some("USD")
      ELSE IF t \in {<<"s", "/">>, <<"s">>, <<"s", "o", "l", "e", "s">>}
        THEN Some("PEN")
      ELSE None

\* ------------------------------------------------------ _range_money_pattern

\* (hasta|max(?:imo)?|tope): "maximo" is tried before "max"
CeilingWords == <<<<"h", "a", "s", "t", "a">>, <<"m", "a", "x", "i", "m", "o">>, <<"m", "a", "x">>, <<"t", "o", "p", "e">>>>

\* (\$|usd|s\/?|soles)
CeilingMarkers == <<<<"$">>, <<"u", "s", "d">>, <<"s", "/">>, <<"s">>, <<"s", "o", "l", "e", "s">>>>

\* (usd|\$|s\/?|soles)
RangeMarkers == <<<<"u", "s", "d">>, <<"$">>, <<"s", "/">>, <<"s">>, <<"s", "o", "l", "e", "s">>>>

\* (y|-|a)
RangeSeparators == {"y", "-", "a"}

\* the first marker of the list that occurs at k and, when digitNext, has a
\* digit after it and optional spaces (0: none)
FirstMarker(t, k, markers, digitNext) ==
  LET hits == { n \in 1..Len(markers) :
                  /\ MatchAt(t, k, markers[n])
                  /\ digitNext => IsDigit(At(t, SkipSpaces(t, k + Len(markers[n])))) }
  IN  IF hits = {} THEN 0 ELSE Min(hits)

NoMatch == [found |-> FALSE]

\* \s*(\$|usd|s\/?|soles)?\s*(\d+[\d\.,]*) from position j: groups 2 and 3
CeilingRest(t, j) ==
  LET k == SkipSpaces(t, j)
      n == FirstMarker(t, k, CeilingMarkers, TRUE)
  IN  IF n # 0
        THEN LET d == SkipSpaces(t, k + Len(CeilingMarkers[n]))
             IN  [found |-> TRUE, g2 |-> Some(CeilingMarkers[n]),
                  g3 |-> Some(Slice(t, d, NumRunEnd(t, d))),
                  g4 |-> None, g6 |-> None, g7 |-> None]
      ELSE IF IsDigit(At(t, k))
        THEN [found |-> TRUE, g2 |-> None,
              g3 |-> Some(Slice(t, k, NumRunEnd(t, k))),
              g4 |-> None, g6 |-> None, g7 |-> None]
      ELSE NoMatch

\* the match a when there is one, else b: the order in which the regex
\* tries its alternatives and its start positions
OrElse(a, b) == IF a.found THEN a ELSE b

\* the first alternative at position i, its ceiling words tried from the n-th
RECURSIVE CeilingFrom(_, _, _)
CeilingFrom(t, i, n) ==
  IF n > Len(CeilingWords) THEN NoMatch
  ELSE IF MatchAt(t, i, CeilingWords[n])
    THEN OrElse(CeilingRest(t, i + Len(CeilingWords[n])), CeilingFrom(t, i, n + 1))
  ELSE CeilingFrom(t, i, n + 1)

\* the first alternative at position i
CeilingAt(t, i) == CeilingFrom(t, i, 1)

\* entre\s*(\d+[\d\.,]*)\s*(y|-|a)\s*(\d+[\d\.,]*)\s*(usd|\$|s\/?|soles)? at
\* position i: groups 4, 6 and 7
EntreAt(t, i) ==
  LET a  == SkipSpaces(t, i + Len(<<"e", "n", "t", "r", "e">>))
      ae == NumRunEnd(t, a)
      s  == SkipSpaces(t, ae)
      b  == SkipSpaces(t, s + 1)
      be == NumRunEnd(t, b)
      m  == SkipSpaces(t, be)
      n  == FirstMarker(t, m, RangeMarkers, FALSE)
  IN  IF /\ MatchAt(t, i, <<"e", "n", "t", "r", "e">>)
         /\ IsDigit(At(t, a))
         /\ At(t, s) \in RangeSeparators
         /\ IsDigit(At(t, b))
        THEN [found |-> TRUE, g2 |-> None, g3 |-> None,
              g4 |-> Some(Slice(t, a, ae)), g6 |-> Some(Slice(t, b, be)),
              g7 |-> IF n = 0 THEN None ELSE Some(RangeMarkers[n])]
        ELSE NoMatch

\* the pattern at position i: the ceiling alternative before the range one
RangeAt(t, i) == OrElse(CeilingAt(t, i), EntreAt(t, i))

\* the leftmost match of the pattern at or after position i
RECURSIVE RangeFrom(_, _)
RangeFrom(t, i) ==
  IF i > Len(t) THEN NoMatch ELSE OrElse(RangeAt(t, i), RangeFrom(t, i + 1))

\* _range_money_pattern.search(t): the leftmost match
range_money_search(t) == RangeFrom(t, 1)

\* ------------------------------------------------------------ _money_pattern

\* (\$|usd|dolares|dólares|\bs\/?|soles); wb: the alternative starts with \b
MoneyMarkers ==
  << [text |-> <<"$">>, wb |-> FALSE],
     [text |-> <<"u", "s", "d">>, wb |-> FALSE],
     [text |-> <<"d", "o", "l", "a", "r", "e", "s">>, wb |-> FALSE],
     [text |-> <<"d", "ó", "l", "a", "r", "e", "s">>, wb |-> FALSE],
     [text |-> <<"s", "/">>, wb |-> TRUE],
     [text |-> <<"s">>, wb |-> TRUE],
     [text |-> <<"s", "o", "l", "e", "s">>, wb |-> FALSE] >>

\* (marker)\s*(\d+[\d\.,]*) at position i: groups 1 and 2
MoneyAt(t, i) ==
  LET hits == { n \in 1..Len(MoneyMarkers) :
                  /\ MoneyMarkers[n].wb => WordBoundary(t, i)
                  /\ MatchAt(t, i, MoneyMarkers[n].text)
                  /\ IsDigit(At(t, SkipSpaces(t, i + Len(MoneyMarkers[n].text)))) }
  IN  IF hits = {} THEN NoMatch
      ELSE LET mk == MoneyMarkers[Min(hits)].text
               d  == SkipSpaces(t, i + Len(mk))
           IN  [found |-> TRUE, g1 |-> mk, g2 |-> Slice(t, d, NumRunEnd(t, d))]

\* the leftmost match of _money_pattern at or after position i
RECURSIVE MoneyFrom(_, _)
MoneyFrom(t, i) ==
  IF i > Len(t) THEN NoMatch ELSE OrElse(MoneyAt(t, i), MoneyFrom(t, i + 1))

\* the first match of _money_pattern.finditer(t)
money_first(t) == MoneyFrom(t, 1)

\* ------------------------------------------------------------------- precio

NoPrecio == [raises |-> FALSE, precio_min |-> None, precio_max |-> None, moneda |-> None]

PrecioRaises == [raises |-> TRUE, precio_min |-> None, precio_max |-> None, moneda |-> None]

\* m_range.group(3): max_val and the currency of group 2
precio_techo(g2, g3) ==
  IF to_float_raises(g3) THEN PrecioRaises
  ELSE [raises |-> FALSE, precio_min |-> None,
        precio_max |-> Some(to_float(g3)),
        moneda |-> IF g2 = None THEN None ELSE norm_moneda(g2[1])]

\* faulty variant of precio_entre: the two amounts kept in the order written
precio_en_orden_escrito(lo, hi, moneda) ==
  [raises |-> FALSE, precio_min |-> Some(lo), precio_max |-> Some(hi),
   moneda |-> moneda]

\* min(a, b) and max(a, b) of two amounts
precio_entre(lo, hi, moneda) ==
  [raises |-> FALSE, precio_min |-> Some(NumMin(lo, hi)),
   precio_max |-> Some(NumMax(lo, hi)), moneda |-> moneda]

\* m_range.group(4) and m_range.group(6): the two ends and the currency of
\* group 7
precio_rango(g4, g6, g7) ==
  IF to_float_raises(g4) \/ to_float_raises(g6) THEN PrecioRaises
  ELSE precio_entre(to_float(g4), to_float(g6),
                    IF g7 = None THEN None ELSE norm_moneda(g7[1]))

\* the first currency amount m, taken as the ceiling
precio_monto(m) ==
  IF ~m.found THEN NoPrecio
  ELSE IF to_float_raises(m.g2) THEN PrecioRaises
  ELSE [raises |-> FALSE, precio_min |-> None,
        precio_max |-> Some(to_float(m.g2)),
        moneda |-> norm_moneda(m.g1)]

\* the price block for the match m_range of the range pattern and the first
\* match m of the money pattern
precio_de(m_range, m) ==
  IF m_range.found
    THEN IF m_range.g3 # None
           THEN precio_techo(m_range.g2, m_range.g3[1])
           ELSE precio_rango(m_range.g4[1], m_range.g6[1], m_range.g7)
    ELSE precio_monto(m)

\* the price block of parse_query_to_filters: the range or ceiling pattern
\* first, the first currency amount otherwise; raises when _to_float raises
precio_detectado(t) == precio_de(range_money_search(t), money_first(t))

\* --------------------------------------------------------------------- area

\* _area_pattern.search(t): "m2" or "m²"
area_marker(t) == Contains(t, <<"m", "2">>) \/ Contains(t, <<"m", "²">>)

\* the end of the match of _number_pattern, \d+[\.,]?\d*, that starts at i
NumberEnd(t, i) ==
  LET d == DigitRunEnd(t, i)
  IN  IF At(t, d) \in {".", ","} THEN DigitRunEnd(t, d + 1) ELSE d

\* nums[-1]: the last of the successive matches of _number_pattern from i on,
\* last being the last one found before i (<<>> when there is none)
RECURSIVE LastNumber(_, _, _)
LastNumber(t, i, last) ==
  IF i > Len(t) THEN last
  ELSE IF IsDigit(t[i])
    THEN LastNumber(t, NumberEnd(t, i), Slice(t, i, NumberEnd(t, i)))
  ELSE LastNumber(t, i + 1, last)

\* float(nums[-1]) when the area marker occurs and there is a number
area_de(marker, last) ==
  IF marker /\ last # <<>> /\ ~to_float_raises(last)
    THEN Some(to_float(last))
    ELSE None

\* result.area_min_m2: the last number of the text when an area marker occurs
area_detectada(t) == area_de(area_marker(t), LastNumber(t, 1, <<>>))

\* ------------------------------------------------------ dormitorios / banos

\* (dorm|dormitorio|habitaci[oó]n|hab)
DormWords == {<<"d", "o", "r", "m">>, <<"d", "o", "r", "m", "i", "t", "o", "r", "i", "o">>, <<"h", "a", "b", "i", "t", "a", "c", "i", "o", "n">>, <<"h", "a", "b", "i", "t", "a", "c", "i", "ó", "n">>, <<"h", "a", "b">>}

\* (baño|banos|baños)
BanosWords == {<<"b", "a", "ñ", "o">>, <<"b", "a", "n", "o", "s">>, <<"b", "a", "ñ", "o", "s">>}

AnyWordAt(t, i, words) == \E w \in words : MatchAt(t, i, w)

\* (\d+)\s*(dorm|...) at position i
DormAt(t, i) ==
  IsDigit(At(t, i)) /\ AnyWordAt(t, SkipSpaces(t, DigitRunEnd(t, i)), DormWords)

\* result.dormitorios_min: int(group 1) of the leftmost match
dormitorios_detectados(t) ==
  LET hits == { i \in 1..Len(t) : DormAt(t, i) }
  IN  IF hits = {} THEN None
      ELSE Some(Dec(DigitsToNat(Slice(t, Min(hits), DigitRunEnd(t, Min(hits)))), 0))

\* the end of group 1 of (\d+(?:\.5)?)\s*(baño|banos|baños) at position i,
\* 0 when the pattern does not match there; the ".5" is taken when it leads
\* to a match
BanosEnd(t, i) ==
  LET d == DigitRunEnd(t, i)
  IN  IF ~IsDigit(At(t, i)) THEN 0
      ELSE IF MatchAt(t, d, <<".", "5">>)
              /\ AnyWordAt(t, SkipSpaces(t, d + 2), BanosWords)
        THEN d + 2
      ELSE IF AnyWordAt(t, SkipSpaces(t, d), BanosWords) THEN d
      ELSE 0

\* result.banos_min: float(group 1) of the leftmost match
banos_detectados(t) ==
  LET hits == { i \in 1..Len(t) : BanosEnd(t, i) # 0 }
  IN  IF hits = {} THEN None
      ELSE Some(float_of(Slice(t, Min(hits), BanosEnd(t, Min(hits))), "."))

\* --------------------------------------------------------------- amenidades

cochera_en(t) == Contains(t, <<"c", "o", "c", "h", "e", "r", "a">>)

ascensor_en(t) == Contains(t, <<"a", "s", "c", "e", "n", "s", "o", "r">>)

terraza_en(t) == Contains(t, <<"t", "e", "r", "r", "a", "z", "a">>)

amoblado_en(t) == Contains(t, <<"a", "m", "o", "b", "l", "a", "d", "o">>)

\* faulty variant of pet_friendly_en: the hyphenated spelling not looked for
pet_friendly_sin_guion(t) ==
  \/ Contains(t, <<"p", "e", "t", " ", "f", "r", "i", "e", "n", "d", "l", "y">>)
  \/ Contains(t, <<"m", "a", "s", "c", "o", "t", "a", "s">>)

pet_friendly_en(t) ==
  \/ Contains(t, <<"p", "e", "t", " ", "f", "r", "i", "e", "n", "d", "l", "y">>)
  \/ Contains(t, <<"p", "e", "t", "-", "f", "r", "i", "e", "n", "d", "l", "y">>)
  \/ Contains(t, <<"m", "a", "s", "c", "o", "t", "a", "s">>)

\* --------------------------------------------------- parse_query_to_filters

\* parse_query_to_filters raises (ValueError from _to_float in the price block)
parse_raises(texto) == precio_detectado(lower(texto)).raises

\* the consulta built from the lowered text t and its price block p
consulta_de(t, p) ==
  [ operacion       |-> operacion_detectada(t),
    distritos       |-> distritos_detectados(t),
    tipo            |-> tipos_detectados(t),
    precio_min      |-> p.precio_min,
    precio_max      |-> p.precio_max,
    moneda          |-> p.moneda,
    area_min_m2     |-> area_detectada(t),
    area_max_m2     |-> None,
    dormitorios_min |-> dormitorios_detectados(t),
    dormitorios_max |-> None,
    banos_min       |-> banos_detectados(t),
    banos_max       |-> None,
    cocheras_min    |-> IF cochera_en(t) THEN Some(Num(1)) ELSE None,
    ascensor        |-> IF ascensor_en(t) THEN Some(TRUE) ELSE None,
    terraza         |-> IF terraza_en(t) THEN Some(TRUE) ELSE None,
    amoblado        |-> IF amoblado_en(t) THEN Some(TRUE) ELSE None,
    pet_friendly    |-> IF pet_friendly_en(t) THEN Some(TRUE) ELSE None ]

\* parse_query_to_filters(texto) when it does not raise
parse_query_to_filters(texto) ==
  consulta_de(lower(texto), precio_detectado(lower(texto)))

\* ------------------------------------------------------------------- buscar

\* key=lambda x: (x.get("precio") or 0)
sort_key(x) == GetOr0(x, "precio")

\* x placed after every element whose key is not greater (stable)
RECURSIVE InsertSorted(_, _)
InsertSorted(s, x) ==
  IF s = <<>> THEN <<x>>
  ELSE IF NumLt(sort_key(x), sort_key(Head(s))) THEN <<x>> \o s
  ELSE <<Head(s)>> \o InsertSorted(Tail(s), x)

RECURSIVE SortInto(_, _)
SortInto(acc, s) ==
  IF s = <<>> THEN acc ELSE SortInto(InsertSorted(acc, Head(s)), Tail(s))

\* faulty variant of sort: the list left in its input order
sort_omitted(s) == s

\* list.sort(key=...): ascending and stable
sort(s) == SortInto(<<>>, s)

\* [p for p in MOCK_DATA if _match(p, consulta)]
matching(listings, c) == SelectSeq(listings, LAMBDA p : match(p, c) = "True")

\* some _match call of the comprehension raises
match_raises(listings, c) ==
  \E i \in 1..Len(listings) : match(listings[i], c) = "TypeError"

Response(status, detail, c, results) ==
  [status |-> status, detail |-> detail, query_struct |-> c, results |-> results]

NoResponse == Response(0, "", None, <<>>)

\* faulty variant of list_sort: the collection is the list sorted in place
list_sort_collection(lists, name) == [lists EXCEPT !.MOCK_DATA = sort(@)]

\* name.sort(key=...) on the lists of the process, each under the name bound
\* to it: the list bound to name is sorted in place, every other list is
\* left as it is
list_sort(lists, name) == [lists EXCEPT ![name] = sort(@)]

\* return {"ok": True, "query_struct": ..., "results": matches}
buscar_return(c, lists) ==
  [resp |-> Response(200, "", Some(c), lists.matches), MOCK_DATA |-> lists.MOCK_DATA]

\* the part of buscar after the consulta is known: the response, and
\* MOCK_DATA as the call leaves it; the comprehension binds a new list to the
\* local matches, beside the module's MOCK_DATA
buscar_consulta(c, listings) ==
  IF ~is_valid_consulta(c)
    THEN [resp |-> Response(400, "La consulta debe incluir al menos un distrito y un parametro adicional", None, <<>>),
          MOCK_DATA |-> listings]
  ELSE IF match_raises(listings, c)
    THEN [resp |-> Response(500, "TypeError", None, <<>>), MOCK_DATA |-> listings]
  ELSE buscar_return(c, list_sort([MOCK_DATA |-> listings,
                                   matches |-> matching(listings, c)], "matches"))

\* ---------------------------------------------------------------- endpoints

Request(endpoint, query, filtros) ==
  [endpoint |-> endpoint, query |-> query, filtros |-> filtros]

\* POST /nlu/parse
NluParse ==
  /\ pc = "request"
  /\ req.endpoint = "/nlu/parse"
  /\ resp' = ( IF parse_raises(req.query[1])
                 THEN Response(500, "ValueError", None, <<>>)
                 ELSE Response(200, "", Some(parse_query_to_filters(req.query[1])), <<>>) )
  /\ pc' = "done"
  /\ served' = served + 1
  /\ UNCHANGED <<req, data>>

\* buscar ends: the response goes to the client, MOCK_DATA stays in the
\* process as the call left it
BuscarEnds(out) ==
  /\ resp' = out.resp
  /\ data' = out.MOCK_DATA

\* POST /buscar: the consulta is parsed from a non-empty query, else taken
\* from filtros, else the request is rejected
Buscar ==
  /\ pc = "request"
  /\ req.endpoint = "/buscar"
  /\ BuscarEnds( IF req.query # None /\ req.query[1] # <<>>
                   THEN IF parse_raises(req.query[1])
                          THEN [resp |-> Response(500, "ValueError", None, <<>>), MOCK_DATA |-> data]
                          ELSE buscar_consulta(parse_query_to_filters(req.query[1]), data)
                 ELSE IF req.filtros # None
                   THEN buscar_consulta(req.filtros[1], data)
                 ELSE [resp |-> Response(400, "Falta 'query' o 'filtros'", None, <<>>), MOCK_DATA |-> data] )
  /\ pc' = "done"
  /\ served' = served + 1
  /\ UNCHANGED req

\* ------------------------------------------------------- telegram webhook

\* str.strip() at the left end
RECURSIVE lstrip(_)
lstrip(s) == IF s # <<>> /\ IsSpace(Head(s)) THEN lstrip(Tail(s)) ELSE s

\* str.strip() at the right end
RECURSIVE rstrip(_)
rstrip(s) ==
  IF s # <<>> /\ IsSpace(s[Len(s)]) THEN rstrip(SubSeq(s, 1, Len(s) - 1)) ELSE s

\* (message.get("text") or "").strip()
strip(s) == rstrip(lstrip(s))

\* what the webhook did: its HTTP status (0 while it has not answered), the
\* {"ok": True} body, the kind of text handed to _send_message ("" when it
\* was not called) and the listings the text shows
TgReply(status, sent, listed) ==
  [status |-> status, ok |-> status = 200, sent |-> sent, listed |-> listed]

\* matches[:5]
first5(matches) == SubSeq(matches, 1, IF Len(matches) < 5 THEN Len(matches) ELSE 5)

\* the keys the line of a listing is formatted from, each read as m[key]
LineKeys ==
  {"titulo", "operacion", "tipo", "distrito", "moneda", "precio", "url_aviso"}

\* the list comprehension over matches[:5] raises KeyError: a shown listing
\* lacks one of the keys
lines_raise(matches) ==
  \E i \in 1..Len(first5(matches)) : ~(LineKeys \subseteq DOMAIN matches[i])

\* the webhook once the matches are known
tg_matches(matches) ==
  IF matches = <<>> THEN TgReply(200, "sin_coincidencias", <<>>)
  ELSE IF lines_raise(matches) THEN TgReply(500, "", <<>>)
  ELSE TgReply(200, "avisos", first5(matches))

\* the webhook once the consulta is known
tg_consulta(c, listings) ==
  IF ~is_valid_consulta(c) THEN TgReply(200, "necesito_distrito", <<>>)
  ELSE IF match_raises(listings, c) THEN TgReply(500, "", <<>>)
  ELSE tg_matches(matching(listings, c))

\* the webhook once the stripped text of the message is known
tg_text(text, listings) ==
  IF text = <<>> THEN TgReply(200, "ejemplo", <<>>)
  ELSE IF parse_raises(text) THEN TgReply(500, "", <<>>)
  ELSE tg_consulta(parse_query_to_filters(text), listings)

\* the webhook from the payload to its call of _send_message: a payload
\* without a message is answered at once, message["chat"]["id"] raises
\* KeyError for a message without chat
tg_payload(r, listings) ==
  IF r.query = None THEN TgReply(200, "", <<>>)
  ELSE IF ~r.chat THEN TgReply(500, "", <<>>)
  ELSE tg_text(strip(r.query[1]), listings)

\* a request to the webhook: the text of the message (None for a payload
\* without a message), whether the message has a chat, whether
\* TELEGRAM_BOT_TOKEN is set, and whether the Telegram API answers the post
TgRequest(text, chat, token, api) ==
  [endpoint |-> "/bot/telegram/webhook", query |-> text, filtros |-> None,
   chat |-> chat, token |-> token, api |-> api]

\* POST /bot/telegram/webhook is a coroutine; it is entered and waits for
\* the body of the request (await request.json()).  The actions follow one
\* call from await to await; calls in flight together share only MOCK_DATA,
\* which no handler writes.
TgWebhook ==
  /\ pc = "request"
  /\ req.endpoint = "/bot/telegram/webhook"
  /\ pc' = "json"
  /\ UNCHANGED <<req, data, resp, served>>

\* _send_message posts the text: it was called and TELEGRAM_BOT_TOKEN is set
tg_sending(reply, token) == reply.sent # "" /\ token

\* the payload arrived: the handler runs from the payload to the point where
\* it returns, raises or waits for the post of _send_message (await
\* client.post); MOCK_DATA is read here
TgPayload ==
  /\ pc = "json"
  /\ req.endpoint = "/bot/telegram/webhook"
  /\ LET reply == tg_payload(req, data)
     IN  IF tg_sending(reply, req.token)
           THEN /\ resp' = TgReply(0, reply.sent, reply.listed)
                /\ pc' = "post"
                /\ UNCHANGED served
           ELSE /\ resp' = reply
                /\ pc' = "done"
                /\ served' = served + 1
  /\ UNCHANGED <<req, data>>

\* the post is answered: _send_message leaves the block of its client
TgPosted ==
  /\ pc = "post"
  /\ req.api = "up"
  /\ pc' = "close"
  /\ UNCHANGED <<req, data, resp, served>>

\* the post raised (no connection, timeout): the exception leaves the block
\* of the client
TgPostFailed ==
  /\ pc = "post"
  /\ req.api = "down"
  /\ pc' = "close_raised"
  /\ UNCHANGED <<req, data, resp, served>>

\* the block "async with httpx.AsyncClient" is left and the client closed:
\* the handler returns {"ok": True}, or the exception, which nothing
\* catches, ends the request with HTTP 500
TgClose ==
  /\ pc \in {"close", "close_raised"}
  /\ req.endpoint = "/bot/telegram/webhook"
  /\ resp' = TgReply(IF pc = "close" THEN 200 ELSE 500, resp.sent, resp.listed)
  /\ pc' = "done"
  /\ served' = served + 1
  /\ UNCHANGED <<req, data>>

\* the number of times a client sends the same request
MaxSearches == 2

\* the client sends the request it sent before once more, keeping the
\* response it received
Resend ==
  /\ pc = "done"
  /\ served < MaxSearches
  /\ pc' = "request"
  /\ UNCHANGED <<req, data, resp, served>>

\* ------------------------------------------------------------ search inputs

MaxListings == 2

\* the example listings and variants of them: a tie on the price, a price one
\* hundredth above 240000, and a listing without the numeric attributes
Pool ==
  { MOCK_DATA[1], MOCK_DATA[2], MOCK_DATA[3],
    [ id_fuente |-> "properati:1002", fuente |-> "properati",
      titulo |-> "Casa con jardín",
      url_aviso |-> "https://properati.pe/prop/1002",
      operacion |-> "venta", tipo |-> "casa",
      precio |-> Num(240000), moneda |-> "USD", area_total_m2 |-> Num(80),
      dormitorios |-> Num(4), banos |-> Num(3), cocheras |-> Num(2),
      amoblado |-> TRUE, pet_friendly |-> TRUE, distrito |-> "Miraflores" ],
    [ id_fuente |-> "urbania:002", fuente |-> "urbania",
      titulo |-> "Flat con terraza",
      url_aviso |-> "https://urbania.pe/aviso/002",
      operacion |-> "venta", tipo |-> "departamento",
      precio |-> Dec(24000001, 2), moneda |-> "USD", area_total_m2 |-> Dec(805, 1),
      dormitorios |-> Num(2), banos |-> Dec(25, 1), cocheras |-> Num(0),
      ascensor |-> TRUE, terraza |-> TRUE, amoblado |-> FALSE,
      distrito |-> "Miraflores" ],
    [ id_fuente |-> "urbania:003", fuente |-> "urbania",
      titulo |-> "Terreno en esquina",
      url_aviso |-> "https://urbania.pe/aviso/003",
      operacion |-> "venta", tipo |-> "terreno", moneda |-> "PEN",
      distrito |-> "Santiago de Surco" ] }

SeqsUpTo(S, n) == UNION { [1..k -> S] : k \in 0..n }

Collections == {MOCK_DATA} \cup SeqsUpTo(Pool, MaxListings)

DistritoChoices ==
  { <<>>, <<"Miraflores", "Santiago de Surco">>, <<"San Borja">> }

\* one field of the filter set to one value
FieldOptions ==
  { <<"operacion", Some("venta")>>, <<"operacion", Some("alquiler")>>,
    <<"operacion", Some("")>>,
    <<"tipo", Some(<<"departamento">>)>>, <<"tipo", Some(<<>>)>>,
    <<"precio_min", Some(Num(240000))>>, <<"precio_min", Some(Num(0))>>,
    <<"precio_max", Some(Num(240000))>>, <<"precio_max", Some(Num(0))>>,
    <<"moneda", Some("USD")>>, <<"moneda", Some("PEN")>>,
    <<"area_min_m2", Some(Num(80))>>, <<"area_max_m2", Some(Num(80))>>,
    <<"area_max_m2", Some(Num(0))>>,
    <<"dormitorios_min", Some(Num(3))>>, <<"dormitorios_max", Some(Num(2))>>,
    <<"banos_min", Some(Dec(25, 1))>>, <<"banos_max", Some(Num(2))>>,
    <<"cocheras_min", Some(Num(1))>>,
    <<"ascensor", Some(TRUE)>>, <<"ascensor", Some(FALSE)>>,
    <<"terraza", Some(TRUE)>>, <<"amoblado", Some(TRUE)>>,
    <<"pet_friendly", Some(TRUE)>> }

With(c, o) == [c EXCEPT ![o[1]] = o[2]]

\* the filters of the /buscar requests: any districts, at most two other fields
Filtros ==
  LET base == { [ConsultaEstructurada EXCEPT !.distritos = d] : d \in DistritoChoices }
      one  == { With(c, o) : c \in base, o \in FieldOptions }
  IN  base \cup one \cup { With(c, o) : c \in one, o \in FieldOptions }

InitSearch ==
  /\ pc = "request"
  /\ req \in { Request("/buscar", None, Some(c)) : c \in Filtros }
             \cup { Request("/buscar", None, None) }
  /\ data \in Collections
  /\ resp = NoResponse
  /\ served = 0

NextSearch == Buscar

SpecSearch == InitSearch /\ [][NextSearch]_vars

\* ------------------------------------------------------- repeated searches

\* the filters a client sends after its first search: two districts and at
\* most one other field
FollowUps ==
  LET c == [ConsultaEstructurada EXCEPT
              !.distritos = <<"Miraflores", "Santiago de Surco">>]
  IN  {c} \cup { With(c, o) : o \in FieldOptions }

\* the client sends another search
NewRequest ==
  /\ pc = "done"
  /\ pc' = "request"
  /\ req' \in { Request("/buscar", None, Some(c)) : c \in FollowUps }
  /\ resp' = NoResponse
  /\ served' = 0
  /\ UNCHANGED data

InitRepeat ==
  /\ pc = "request"
  /\ req \in { Request("/buscar", None, Some(c)) : c \in FollowUps }
  /\ data \in Collections
  /\ resp = NoResponse
  /\ served = 0

NextRepeat == Buscar \/ Resend \/ NewRequest

SpecRepeat == InitRepeat /\ [][NextRepeat]_vars

\* ------------------------------------------------------------- query inputs

MaxWords == 2

\* words and phrases a query is made of
Vocabulary ==
  { <<"M", "i", "r", "a", "f", "l", "o", "r", "e", "s">>,
    <<"S", "a", "n", " ", "I", "s", "i", "d", "r", "o">>,
    <<"s", "u", "r", "c", "o">>,
    <<"v", "e", "n", "t", "a">>,
    <<"a", "l", "q", "u", "i", "l", "e", "r">>,
    <<"h", "a", "s", "t", "a">>,
    <<"2", "5", "0", "0", " ", "s", "o", "l", "e", "s">>,
    <<"s", "/", " ", "2", "5", "0", "0">>,
    <<"u", "s", "d">>,
    <<"2", "5", "0", "k">>,
    <<"e", "n", "t", "r", "e", " ", "2", "0", "0", " ", "y", " ", "3", "0", "0">>,
    <<"c", "a", "s", "a">>,
    <<"2", " ", "d", "o", "r", "m">>,
    <<"3", " ", "b", "a", "ñ", "o", "s">>,
    <<"c", "o", "c", "h", "e", "r", "a">>,
    <<"7", "0", " ", "m", "2">> }

\* "hasta 2500 soles"
Texto_Hasta2500Soles ==
  <<"h", "a", "s", "t", "a", " ", "2", "5", "0", "0", " ", "s", "o", "l",
    "e", "s">>

\* "hasta s/ 2500"
Texto_HastaS2500 ==
  <<"h", "a", "s", "t", "a", " ", "s", "/", " ", "2", "5", "0", "0">>

\* "entre 200k y 300k usd"
Texto_Entre200kY300kUsd ==
  <<"e", "n", "t", "r", "e", " ", "2", "0", "0", "k", " ", "y", " ", "3",
    "0", "0", "k", " ", "u", "s", "d">>

\* "entre 300k y 200k usd"
Texto_Entre300kY200kUsd ==
  <<"e", "n", "t", "r", "e", " ", "3", "0", "0", "k", " ", "y", " ", "2",
    "0", "0", "k", " ", "u", "s", "d">>

\* "entre 200 y 300 usd"
Texto_Entre200Y300Usd ==
  <<"e", "n", "t", "r", "e", " ", "2", "0", "0", " ", "y", " ", "3", "0",
    "0", " ", "u", "s", "d">>

\* "entre 300 y 200 usd"
Texto_Entre300Y200Usd ==
  <<"e", "n", "t", "r", "e", " ", "3", "0", "0", " ", "y", " ", "2", "0",
    "0", " ", "u", "s", "d">>

\* "venta en Miraflores y San Isidro, 2 dorm"
Texto_VentaMultiDistrito ==
  <<"v", "e", "n", "t", "a", " ", "e", "n", " ", "M", "i", "r", "a", "f",
    "l", "o", "r", "e", "s", " ", "y", " ", "S", "a", "n", " ", "I", "s",
    "i", "d", "r", "o", ",", " ", "2", " ", "d", "o", "r", "m">>

\* "Miraflores $1,200,000"
Texto_MirafloresDolar1200000 ==
  <<"M", "i", "r", "a", "f", "l", "o", "r", "e", "s", " ", "$", "1", ",",
    "2", "0", "0", ",", "0", "0", "0">>

\* "hasta 1,2,3"
Texto_Hasta123 ==
  <<"h", "a", "s", "t", "a", " ", "1", ",", "2", ",", "3">>

\* "depa climatizado"
Texto_DepaClimatizado ==
  <<"d", "e", "p", "a", " ", "c", "l", "i", "m", "a", "t", "i", "z", "a",
    "d", "o">>

\* "patente"
Texto_Patente ==
  <<"p", "a", "t", "e", "n", "t", "e">>

\* "surco y santiago de surco"
Texto_SurcoYSantiagoDeSurco ==
  <<"s", "u", "r", "c", "o", " ", "y", " ", "s", "a", "n", "t", "i", "a",
    "g", "o", " ", "d", "e", " ", "s", "u", "r", "c", "o">>

\* "Breña"
Texto_BrenaConTilde ==
  <<"B", "r", "e", "ñ", "a">>

\* "brena"
Texto_BrenaSinTilde ==
  <<"b", "r", "e", "n", "a">>

\* "Villa María del Triunfo"
Texto_VillaMariaConTilde ==
  <<"V", "i", "l", "l", "a", " ", "M", "a", "r", "í", "a", " ", "d", "e",
    "l", " ", "T", "r", "i", "u", "n", "f", "o">>

\* "villa maria del triunfo"
Texto_VillaMariaSinTilde ==
  <<"v", "i", "l", "l", "a", " ", "m", "a", "r", "i", "a", " ", "d", "e",
    "l", " ", "t", "r", "i", "u", "n", "f", "o">>

\* "JESÚS MARÍA"
Texto_JesusMariaConTilde ==
  <<"J", "E", "S", "Ú", "S", " ", "M", "A", "R", "Í", "A">>

\* "jesus maria"
Texto_JesusMariaSinTilde ==
  <<"j", "e", "s", "u", "s", " ", "m", "a", "r", "i", "a">>

\* "usd 2500"
Texto_Usd2500 ==
  <<"u", "s", "d", " ", "2", "5", "0", "0">>

\* "s/ 2500"
Texto_S2500 ==
  <<"s", "/", " ", "2", "5", "0", "0">>

\* "2500 soles"
Texto_2500Soles ==
  <<"2", "5", "0", "0", " ", "s", "o", "l", "e", "s">>

\* "usd 2500 s/ 3000"
Texto_Usd2500S3000 ==
  <<"u", "s", "d", " ", "2", "5", "0", "0", " ", "s", "/", " ", "3", "0",
    "0", "0">>

\* "2500 soles usd 900"
Texto_2500SolesUsd900 ==
  <<"2", "5", "0", "0", " ", "s", "o", "l", "e", "s", " ", "u", "s", "d",
    " ", "9", "0", "0">>

\* "compro o alquilo"
Texto_ComproOAlquilo ==
  <<"c", "o", "m", "p", "r", "o", " ", "o", " ", "a", "l", "q", "u", "i",
    "l", "o">>

\* "vendo casa"
Texto_VendoCasa ==
  <<"v", "e", "n", "d", "o", " ", "c", "a", "s", "a">>

\* "con ascensor y terraza"
Texto_AscensorYTerraza ==
  <<"c", "o", "n", " ", "a", "s", "c", "e", "n", "s", "o", "r", " ", "y",
    " ", "t", "e", "r", "r", "a", "z", "a">>

\* "amoblado pet friendly"
Texto_AmobladoPetFriendly ==
  <<"a", "m", "o", "b", "l", "a", "d", "o", " ", "p", "e", "t", " ", "f",
    "r", "i", "e", "n", "d", "l", "y">>

\* "pet-friendly"
Texto_PetFriendlyConGuion ==
  <<"p", "e", "t", "-", "f", "r", "i", "e", "n", "d", "l", "y">>

\* "acepta mascotas"
Texto_AceptaMascotas ==
  <<"a", "c", "e", "p", "t", "a", " ", "m", "a", "s", "c", "o", "t", "a",
    "s">>

\* "min 70 m2"
Texto_Min70M2 ==
  <<"m", "i", "n", " ", "7", "0", " ", "m", "2">>

\* "70 m²"
Texto_70M2Superindice ==
  <<"7", "0", " ", "m", "²">>

\* "RÍMAC"
Texto_RimacConTilde ==
  <<"R", "Í", "M", "A", "C">>

\* "Rimac"
Texto_RimacSinTilde ==
  <<"R", "i", "m", "a", "c">>

\* "San Martín de Porres"
Texto_SanMartinConTilde ==
  <<"S", "a", "n", " ", "M", "a", "r", "t", "í", "n", " ", "d", "e", " ",
    "P", "o", "r", "r", "e", "s">>

\* "san martin de porres"
Texto_SanMartinSinTilde ==
  <<"s", "a", "n", " ", "m", "a", "r", "t", "i", "n", " ", "d", "e", " ",
    "p", "o", "r", "r", "e", "s">>

\* "surco san borja ascensor"
Texto_SurcoSanBorjaAscensor ==
  <<"s", "u", "r", "c", "o", " ", "s", "a", "n", " ", "b", "o", "r", "j",
    "a", " ", "a", "s", "c", "e", "n", "s", "o", "r">>

\* "san juan de miraflores"
Texto_SanJuanDeMiraflores ==
  <<"s", "a", "n", " ", "j", "u", "a", "n", " ", "d", "e", " ", "m", "i",
    "r", "a", "f", "l", "o", "r", "e", "s">>

\* "casa en San Juan de Miraflores"
Texto_CasaEnSanJuanDeMiraflores ==
  <<"c", "a", "s", "a", " ", "e", "n", " ", "S", "a", "n", " ", "J", "u",
    "a", "n", " ", "d", "e", " ", "M", "i", "r", "a", "f", "l", "o", "r",
    "e", "s">>

Examples ==
  { Texto_Hasta2500Soles,
    Texto_HastaS2500,
    Texto_Entre200kY300kUsd,
    Texto_Entre300kY200kUsd,
    Texto_Entre200Y300Usd,
    Texto_Entre300Y200Usd,
    Texto_VentaMultiDistrito,
    Texto_MirafloresDolar1200000,
    Texto_Hasta123,
    Texto_DepaClimatizado,
    Texto_Patente,
    Texto_SurcoYSantiagoDeSurco,
    Texto_BrenaConTilde,
    Texto_BrenaSinTilde,
    Texto_VillaMariaConTilde,
    Texto_VillaMariaSinTilde,
    Texto_JesusMariaConTilde,
    Texto_JesusMariaSinTilde,
    Texto_Usd2500,
    Texto_S2500,
    Texto_2500Soles,
    Texto_Usd2500S3000,
    Texto_2500SolesUsd900,
    Texto_ComproOAlquilo,
    Texto_VendoCasa,
    Texto_AscensorYTerraza,
    Texto_AmobladoPetFriendly,
    Texto_PetFriendlyConGuion,
    Texto_AceptaMascotas,
    Texto_Min70M2,
    Texto_70M2Superindice,
    Texto_RimacConTilde,
    Texto_RimacSinTilde,
    Texto_SanMartinConTilde,
    Texto_SanMartinSinTilde,
    Texto_SurcoSanBorjaAscensor,
    Texto_SanJuanDeMiraflores,
    Texto_CasaEnSanJuanDeMiraflores }

\* " ".join(words)
RECURSIVE Join(_)
Join(words) ==
  IF words = <<>> THEN <<>>
  ELSE IF Len(words) = 1 THEN words[1]
  ELSE words[1] \o <<" ">> \o Join(Tail(words))

Texts == Examples \cup { Join(ws) : ws \in SeqsUpTo(Vocabulary, MaxWords) }

InitParse ==
  /\ pc = "request"
  /\ req \in { Request(e, Some(t), None) : e \in {"/nlu/parse", "/buscar"}, t \in Texts }
  /\ data = MOCK_DATA
  /\ resp = NoResponse
  /\ served = 0

NextParse == NluParse \/ Buscar

SpecParse == InitParse /\ [][NextParse]_vars

\* ------------------------------------------------- claims about the matcher

\* the filter of the request and the listings the handler searched
Filtro == req.filtros[1]

Searched == pc = "done" /\ req.filtros # None

Returned == Searched /\ resp.status = 200

InResults(p) == InList(p, resp.results)

Listings == { data[i] : i \in 1..Len(data) }

\* C1: the request is rejected as not actionable (HTTP 400) exactly when the
\* districts list is empty or none of operation, property types, the price,
\* area, bedroom and bathroom bounds, parkingMin and the amenity flags is set;
\* empty districts are never actionable and the currency does not count.
C1_ActionableIffDistrictAndSignal ==
  Searched =>
    LET c == Filtro
        signal ==
          \/ c.operacion \notin {None, Some("")}
          \/ c.tipo \notin {None, Some(<<>>)}
          \/ c.precio_min # None \/ c.precio_max # None
          \/ c.area_min_m2 # None \/ c.area_max_m2 # None
          \/ c.dormitorios_min # None \/ c.dormitorios_max # None
          \/ c.banos_min # None \/ c.banos_max # None
          \/ c.cocheras_min # None
          \/ c.ascensor # None \/ c.terraza # None
          \/ c.amoblado # None \/ c.pet_friendly # None
    IN  /\ (resp.status # 400) <=> (Len(c.distritos) > 0 /\ signal)
        /\ Len(c.distritos) = 0 => resp.status = 400
        /\ [c EXCEPT !.moneda = None, !.distritos = <<>>] = ConsultaEstructurada
             => resp.status = 400

\* a filter with a district and only the currency was rejected, and one with a
\* district and one signal was accepted
C1_Witness ==
  /\ Searched
  /\ Len(Filtro.distritos) > 0
  /\ Filtro.moneda = Some("USD")
  /\ [Filtro EXCEPT !.moneda = None, !.distritos = <<>>] = ConsultaEstructurada
  /\ resp.status = 400

\* the non-numeric constraints of the filter c on the listing p
NonNumericOK(p, c) ==
  /\ "distrito" \in DOMAIN p
  /\ \E i \in 1..Len(c.distritos) : c.distritos[i] = p.distrito
  /\ c.operacion \notin {None, Some("")}
       => "operacion" \in DOMAIN p /\ p.operacion = c.operacion[1]
  /\ c.tipo \notin {None, Some(<<>>)}
       => "tipo" \in DOMAIN p /\ \E i \in 1..Len(c.tipo[1]) : c.tipo[1][i] = p.tipo
  /\ c.moneda \notin {None, Some("")}
       => "moneda" \in DOMAIN p /\ p.moneda = c.moneda[1]
  /\ \A flag \in {"ascensor", "terraza", "amoblado", "pet_friendly"} :
       c[flag] = Some(TRUE) => flag \in DOMAIN p /\ p[flag] = TRUE

NumericBounds ==
  { "precio_min", "precio_max", "area_min_m2", "area_max_m2", "dormitorios_min",
    "dormitorios_max", "banos_min", "banos_max", "cocheras_min" }

\* C6: every returned listing satisfies all the non-numeric constraints that
\* are present (district membership, operation, property type, currency, each
\* amenity flag that is true), and when the filter has no numeric bound the
\* listings that satisfy them are exactly the returned ones.
C6_NonNumericConjunction ==
  Returned =>
    /\ \A p \in Listings : InResults(p) => NonNumericOK(p, Filtro)
    /\ \A i \in 1..Len(resp.results) : resp.results[i] \in Listings
    /\ (\A f \in NumericBounds : Filtro[f] = None)
         => \A p \in Listings : NonNumericOK(p, Filtro) => InResults(p)

\* two fields constrain at once: a listing with the flag true and the right
\* currency is returned, one whose flag is false is not
C6_Witness ==
  /\ Returned
  /\ Filtro.terraza = Some(TRUE)
  /\ Filtro.moneda = Some("USD")
  /\ \E p \in Listings : InResults(p)
  /\ \E p \in Listings : "terraza" \in DOMAIN p /\ p.terraza = FALSE /\ ~InResults(p)

\* C7: the result is the matching listings in ascending order of price, equal
\* prices in their order in the collection; for the three mock listings and
\* {venta, {Miraflores, Santiago de Surco}} it is the Surco listing, then the
\* Miraflores listing.
C7_AscendingPriceStable ==
  Returned =>
    LET r == resp.results
        M == SelectSeq(data, InResults)
        price(x) == IF "precio" \in DOMAIN x THEN x.precio ELSE Num(0)
    IN  /\ Len(r) = Len(M)
        /\ \E pi \in Permutations(1..Len(M)) :
             /\ \A k \in 1..Len(r) : r[k] = M[pi[k]]
             /\ \A k, l \in 1..Len(r) :
                  k < l => \/ NumLt(price(r[k]), price(r[l]))
                           \/ price(r[k]) = price(r[l]) /\ pi[k] < pi[l]
        /\ ( /\ data = MOCK_DATA
             /\ Filtro = [ConsultaEstructurada EXCEPT
                             !.operacion = Some("venta"),
                             !.distritos = <<"Miraflores", "Santiago de Surco">>] )
             => r = <<MOCK_DATA[1], MOCK_DATA[2]>>

\* the end-to-end example: the mock listings, the sale filter on two districts
C7_Witness ==
  /\ Returned
  /\ data = MOCK_DATA
  /\ Filtro = [ConsultaEstructurada EXCEPT
                  !.operacion = Some("venta"),
                  !.distritos = <<"Miraflores", "Santiago de Surco">>]
  /\ Len(resp.results) = 2

\* C8: every returned listing lies within every numeric bound the filter sets
\* (stated for the bounds set to a positive value): price, area, bedrooms,
\* bathrooms and parking, the *Max bounds of bedrooms and bathrooms included.
C8_EveryNumericBoundEnforced ==
  Returned =>
    \A p \in Listings : InResults(p) =>
      LET val(k) == IF k \in DOMAIN p THEN p[k] ELSE Num(0)
          atLeast(f, k) == TruthyNum(Filtro[f]) => ~NumLt(val(k), Filtro[f][1])
          atMost(f, k)  == TruthyNum(Filtro[f]) => ~NumLt(Filtro[f][1], val(k))
      IN  /\ atLeast("precio_min", "precio") /\ atMost("precio_max", "precio")
          /\ atLeast("area_min_m2", "area_total_m2")
          /\ atMost("area_max_m2", "area_total_m2")
          /\ atLeast("dormitorios_min", "dormitorios")
          /\ atMost("dormitorios_max", "dormitorios")
          /\ atLeast("banos_min", "banos") /\ atMost("banos_max", "banos")
          /\ atLeast("cocheras_min", "cocheras")

\* a + b for two decimal numbers, added exactly; used to name the price one
\* hundredth above a bound
NumAdd(a, b) ==
  LET E == IF a.e > b.e THEN a.e ELSE b.e
  IN  Dec(a.m * Pow10(E - a.e) + b.m * Pow10(E - b.e), E)

\* C9: with priceMax = P > 0, a listing priced exactly P that meets the other
\* constraints is returned and a listing priced P + 0.01 is not.
C9_PriceMaxInclusive ==
  (Returned /\ TruthyNum(Filtro.precio_max)) =>
    LET P == Filtro.precio_max[1]
        others == [Filtro EXCEPT !.precio_max = None]
    IN  \A p \in Listings : "precio" \in DOMAIN p =>
          /\ (p.precio = P /\ match(p, others) = "True") => InResults(p)
          /\ p.precio = NumAdd(P, Dec(1, 2)) => ~InResults(p)

\* a listing priced P is returned while one priced P + 0.01, in a searched
\* district, is left out
C9_Witness ==
  /\ Returned
  /\ TruthyNum(Filtro.precio_max)
  /\ \E p \in Listings :
       "precio" \in DOMAIN p /\ p.precio = Filtro.precio_max[1] /\ InResults(p)
  /\ \E p \in Listings :
       /\ "precio" \in DOMAIN p
       /\ p.precio = NumAdd(Filtro.precio_max[1], Dec(1, 2))
       /\ InList(p.distrito, Filtro.distritos)
       /\ ~InResults(p)

\* C10: the search never raises, whatever the filter and the listings: a
\* listing without a numeric attribute counts as 0 for it, the price included.
C10_SearchNeverRaises ==
  Searched => resp.status # 500

\* ----------------------------------------------- claims about the extractor

Parsed == pc = "done" /\ req.endpoint = "/nlu/parse"

Queried == pc = "done" /\ req.endpoint = "/buscar" /\ req.query # None

\* the text of the request, and the filter /nlu/parse answered with
Texto == req.query[1]

Extracted == resp.query_struct[1]

\* one example of each kind of signal next to a district: a ceiling, a range,
\* an amount with its currency marker before and after it, a property type, a
\* bedroom count, a bathroom count, an amenity and the two operations
SignalPhrases ==
  { <<"h", "a", "s", "t", "a", " ", "2", "5", "0", "0">>,
    <<"e", "n", "t", "r", "e", " ", "2", "0", "0", " ", "y", " ", "3", "0", "0">>,
    <<"s", "/", " ", "2", "5", "0", "0">>,
    <<"2", "5", "0", "0", " ", "s", "o", "l", "e", "s">>,
    <<"c", "a", "s", "a">>,
    <<"2", " ", "d", "o", "r", "m">>,
    <<"3", " ", "b", "a", "ñ", "o", "s">>,
    <<"c", "o", "c", "h", "e", "r", "a">>,
    <<"v", "e", "n", "t", "a">>,
    <<"a", "l", "q", "u", "i", "l", "e", "r">> }

HasDistrictSynonym(texto) ==
  \E n \in 1..Len(DISTRITOS_MAP) : SearchWord(lower(texto), DISTRITOS_MAP[n].key)

HasSignal(texto) == \E ph \in SignalPhrases : Contains(lower(texto), ph)

\* C2: a query with a district synonym and one other recognised signal (a
\* price expression, a property type, a room count, an amenity or an operation
\* word) is actionable: /buscar does not reject it.
C2_DistrictPlusSignalActionable ==
  (Queried /\ HasDistrictSynonym(Texto) /\ HasSignal(Texto)) => resp.status = 200

\* C3: "hasta 2500 soles" gives priceMax = 2500, currency = PEN and no
\* priceMin, as does the ceiling phrase with the marker before the number.
C3_CeilingSetsMaxAndCurrency ==
  (Parsed /\ Texto \in {Texto_Hasta2500Soles, Texto_HastaS2500}) =>
    /\ resp.status = 200
    /\ Extracted.precio_max = Some(Num(2500))
    /\ Extracted.moneda = Some("PEN")
    /\ Extracted.precio_min = None

\* C4: "entre 200k y 300k usd" and "entre 300k y 200k usd" both give
\* priceMin = 200000, priceMax = 300000, currency = USD.
C4_RangeWithKSuffix ==
  (Parsed /\ Texto \in {Texto_Entre200kY300kUsd, Texto_Entre300kY200kUsd}) =>
    /\ resp.status = 200
    /\ Extracted.precio_min = Some(Num(200000))
    /\ Extracted.precio_max = Some(Num(300000))
    /\ Extracted.moneda = Some("USD")

\* C5: "venta en Miraflores y San Isidro, 2 dorm" gives the districts
\* Miraflores and San Isidro, the operation venta, bedroomsMin = 2 and nothing
\* else, and /buscar accepts the query as actionable.
C5_MultiDistrictExample ==
  (pc = "done" /\ Texto = Texto_VentaMultiDistrito) =>
    /\ resp.status = 200
    /\ resp.query_struct =
         Some([ConsultaEstructurada EXCEPT
                 !.distritos = <<"Miraflores", "San Isidro">>,
                 !.operacion = Some("venta"),
                 !.dormitorios_min = Some(Num(2))])

\* /buscar parsed the example query and searched with it
C5_Witness ==
  /\ Queried
  /\ Texto = Texto_VentaMultiDistrito
  /\ resp.status = 200
  /\ resp.query_struct[1].distritos = <<"Miraflores", "San Isidro">>

\* C11: extract never raises: a price number with several commas, as in
\* "$1,200,000" or "hasta 1,2,3", is treated as no price and the other fields
\* are still returned (here the district of "Miraflores $1,200,000").
C11_ExtractNeverRaises ==
  Parsed =>
    /\ resp.status = 200
    /\ Texto = Texto_MirafloresDolar1200000 =>
         resp.query_struct =
           Some([ConsultaEstructurada EXCEPT !.distritos = <<"Miraflores">>])
    /\ Texto = Texto_Hasta123 => resp.query_struct = Some(ConsultaEstructurada)

\* ------------------------------------------------------ boundary inputs

\* words of the messages sent to the two boundaries, blanks included
GateVocabulary ==
  { <<"M", "i", "r", "a", "f", "l", "o", "r", "e", "s">>,
    <<"s", "u", "r", "c", "o">>,
    <<"v", "e", "n", "t", "a">>,
    <<"a", "l", "q", "u", "i", "l", "e", "r">>,
    <<"c", "a", "s", "a">>,
    <<"h", "a", "s", "t", "a", " ", "2", "5", "0", "0">>,
    <<" ">> }

GateTexts == Examples \cup { Join(ws) : ws \in SeqsUpTo(GateVocabulary, MaxWords) }

\* the surroundings of a webhook call: the message has a chat or not, the
\* token is set or not, the Telegram API answers or not
TgSettings == BOOLEAN \X BOOLEAN \X {"up", "down"}

InitGate ==
  /\ pc = "request"
  /\ req \in { Request("/buscar", Some(t), None) : t \in GateTexts }
             \cup { TgRequest(t, e[1], e[2], e[3]) :
                      t \in {None} \cup { Some(x) : x \in GateTexts },
                      e \in TgSettings }
             \cup { Request("/buscar", None, Some(c)) :
                      c \in FollowUps \cup { With(ConsultaEstructurada, o) : o \in FieldOptions } }
  /\ data = MOCK_DATA
  /\ resp = NoResponse
  /\ served = 0

NextGate ==
  Buscar \/ TgWebhook \/ TgPayload \/ TgPosted \/ TgPostFailed \/ TgClose

SpecGate == InitGate /\ [][NextGate]_vars

\* ------------------------------------------- claims about repeated searches

\* ---------------------------------------- further claims about the extractor

\* C13: whenever the extracted filter has both priceMin and priceMax,
\* priceMin <= priceMax; "entre 200 y 300 usd" and "entre 300 y 200 usd" both
\* give priceMin = 200 and priceMax = 300.
C13_PriceBoundsOrdered ==
  (Parsed /\ resp.status = 200) =>
    /\ (Extracted.precio_min # None /\ Extracted.precio_max # None)
         => ~NumLt(Extracted.precio_max[1], Extracted.precio_min[1])
    /\ Texto \in {Texto_Entre200Y300Usd, Texto_Entre300Y200Usd}
         => /\ Extracted.precio_min = Some(Num(200))
            /\ Extracted.precio_max = Some(Num(300))

\* the range written with the larger amount first was extracted
C13_Witness ==
  /\ Parsed
  /\ Texto = Texto_Entre300Y200Usd
  /\ Extracted.precio_min = Some(Num(200))
  /\ Extracted.precio_max = Some(Num(300))

\* ------------------------------------------------ claims about the boundaries

\* the filter has a district and one more parameter (the currency not counted)
DistrictAndSignal(c) ==
  /\ Len(c.distritos) > 0
  /\ \/ c.operacion \notin {None, Some("")}
     \/ c.tipo \notin {None, Some(<<>>)}
     \/ \E f \in NumericBounds \cup {"ascensor", "terraza", "amoblado", "pet_friendly"} :
          c[f] # None

\* the text the boundary hands to the extractor
GateText ==
  IF req.endpoint = "/buscar" THEN req.query[1] ELSE strip(req.query[1])

\* the boundary reached its gate with a filter
AtGate ==
  /\ pc = "done"
  /\ req.filtros # None \/ (req.query # None /\ GateText # <<>> /\ ~parse_raises(GateText))
  /\ req.endpoint = "/bot/telegram/webhook" => req.chat

\* the post of the webhook's message to the Telegram API raised
PostFailed == req.token /\ req.api = "down"

\* the filter the boundary tested
GateFilter ==
  IF req.query # None /\ req.query[1] # <<>>
    THEN parse_query_to_filters(GateText) ELSE req.filtros[1]

\* the webhook's message was posted to the Telegram API and the post returned
Posted == req.token /\ req.api = "up"

\* C14 as first stated: at /buscar and at the Telegram webhook a filter that
\* is not actionable is never matched: /buscar ends with HTTP 400 and no
\* listing, the webhook sends the prompt for a district and one more
\* parameter and returns ok; a filter that passes the gate reaches the answer
\* unchanged.
C14_PromptSentAndOk ==
  AtGate =>
    /\ (~DistrictAndSignal(GateFilter) /\ req.endpoint = "/buscar")
         => resp.status = 400 /\ resp.results = <<>> /\ resp.query_struct = None
    /\ (~DistrictAndSignal(GateFilter) /\ req.endpoint = "/bot/telegram/webhook")
         => /\ resp.sent = "necesito_distrito" /\ resp.listed = <<>>
            /\ Posted
            /\ resp.status = 200 /\ resp.ok
    /\ (DistrictAndSignal(GateFilter) /\ req.endpoint = "/buscar")
         => resp.status = 200 /\ resp.query_struct = Some(GateFilter)
    /\ (DistrictAndSignal(GateFilter) /\ req.endpoint = "/bot/telegram/webhook")
         => resp.sent \in {"sin_coincidencias", "avisos"}

\* C14, amended: at /buscar and at the Telegram webhook a filter that is not
\* actionable is never matched: /buscar ends with HTTP 400 and no listing,
\* the webhook hands the prompt for a district and one more parameter to
\* _send_message and shows no listing; it returns ok unless the bot token is
\* set and the post to the Telegram API raises, and then the request ends
\* with HTTP 500; a filter that passes the gate reaches the answer unchanged.
C14_MatcherOnlyAfterGate ==
  AtGate =>
    /\ (~DistrictAndSignal(GateFilter) /\ req.endpoint = "/buscar")
         => resp.status = 400 /\ resp.results = <<>> /\ resp.query_struct = None
    /\ (~DistrictAndSignal(GateFilter) /\ req.endpoint = "/bot/telegram/webhook")
         => /\ resp.sent = "necesito_distrito" /\ resp.listed = <<>>
            /\ IF PostFailed THEN resp.status = 500 ELSE resp.status = 200 /\ resp.ok
    /\ (DistrictAndSignal(GateFilter) /\ req.endpoint = "/buscar")
         => resp.status = 200 /\ resp.query_struct = Some(GateFilter)
    /\ (DistrictAndSignal(GateFilter) /\ req.endpoint = "/bot/telegram/webhook")
         => /\ resp.sent \in {"sin_coincidencias", "avisos"}
            /\ IF PostFailed THEN resp.status = 500 ELSE resp.status = 200 /\ resp.ok

\* the webhook got a message that names a district and nothing else, and
\* asked for more; the post of the prompt raised
C14_Witness ==
  /\ AtGate
  /\ req.endpoint = "/bot/telegram/webhook"
  /\ PostFailed
  /\ resp.status = 500 /\ ~resp.ok
  /\ GateFilter.distritos = <<"Miraflores">>
  /\ ~DistrictAndSignal(GateFilter)
  /\ resp.sent = "necesito_distrito"

\* the gazetteer key occurs in t with no letter, digit or underscore directly
\* before or after it
OccursAsWord(t, key) ==
  \E i \in 1..Len(t) :
    /\ MatchAt(t, i, key)
    /\ ~IsWordChar(At(t, i - 1))
    /\ ~IsWordChar(At(t, i + Len(key)))

CanonicalNames == { DISTRITOS_MAP[n].canon : n \in 1..Len(DISTRITOS_MAP) }

\* C15: the extracted districts are, without duplicates, exactly the canonical
\* names of the gazetteer keys that occur in the text as whole words or
\* phrases: "lima" inside "climatizado" and "ate" inside "patente" give
\* nothing, "surco" and "santiago de surco" give one entry, and a text without
\* a key gives the empty list.
C15_DistrictsWholeWordKeys ==
  (Parsed /\ resp.status = 200) =>
    LET d == Extracted.distritos
    IN  /\ \A k, l \in 1..Len(d) : d[k] = d[l] => k = l
        /\ \A k \in 1..Len(d) : d[k] \in CanonicalNames
        /\ \A canon \in CanonicalNames :
             InList(canon, d) <=>
               \E n \in 1..Len(DISTRITOS_MAP) :
                 /\ DISTRITOS_MAP[n].canon = canon
                 /\ OccursAsWord(lower(Texto), DISTRITOS_MAP[n].key)
        /\ Texto \in {Texto_DepaClimatizado, Texto_Patente} => d = <<>>
        /\ Texto = Texto_SurcoYSantiagoDeSurco => d = <<"Santiago de Surco">>

\* "depa climatizado", which holds the letters of "lima", gave no district
C15_Witness ==
  /\ Parsed
  /\ Texto = Texto_DepaClimatizado
  /\ Contains(lower(Texto), <<"l", "i", "m", "a">>)
  /\ Extracted.distritos = <<>>

\* C16: the accented and the unaccented spelling of a district name, in any
\* letter case, give the same canonical district: "Breña" and "brena",
\* "Villa María del Triunfo" and "villa maria del triunfo", and likewise for
\* Jesús María, Rímac and San Martín de Porres.
C16_AccentInsensitiveDistricts ==
  Parsed =>
    /\ Texto \in {Texto_BrenaConTilde, Texto_BrenaSinTilde}
         => resp.status = 200 /\ Extracted.distritos = <<"Breña">>
    /\ Texto \in {Texto_VillaMariaConTilde, Texto_VillaMariaSinTilde}
         => resp.status = 200 /\ Extracted.distritos = <<"Villa María del Triunfo">>
    /\ Texto \in {Texto_JesusMariaConTilde, Texto_JesusMariaSinTilde}
         => resp.status = 200 /\ Extracted.distritos = <<"Jesús María">>
    /\ Texto \in {Texto_RimacConTilde, Texto_RimacSinTilde}
         => resp.status = 200 /\ Extracted.distritos = <<"Rímac">>
    /\ Texto \in {Texto_SanMartinConTilde, Texto_SanMartinSinTilde}
         => resp.status = 200 /\ Extracted.distritos = <<"San Martín de Porres">>

\* the operation tokens of the two categories
RentalTokens == { <<"a", "l", "q", "u", "i", "l", "e", "r">>,
                  <<"a", "l", "q", "u", "i", "l", "o">>,
                  <<"a", "l", "q", "u", "i", "l", "a", "r">> }

SaleTokens == { <<"v", "e", "n", "t", "a">>,
                <<"c", "o", "m", "p", "r", "a", "r">>,
                <<"c", "o", "m", "p", "r", "o">>,
                <<"v", "e", "n", "d", "o">> }

HasToken(texto, tokens) == \E w \in tokens : Contains(lower(texto), w)

\* C17: a text with a rental token gives operation = alquiler whether or not
\* a sale token occurs too, before or after it; a text with sale tokens only
\* gives venta; a text with no operation token leaves the operation unset.
C17_RentalBeforeSale ==
  (Parsed /\ resp.status = 200) =>
    /\ HasToken(Texto, RentalTokens) => Extracted.operacion = Some("alquiler")
    /\ (HasToken(Texto, SaleTokens) /\ ~HasToken(Texto, RentalTokens))
         => Extracted.operacion = Some("venta")
    /\ (~HasToken(Texto, SaleTokens) /\ ~HasToken(Texto, RentalTokens))
         => Extracted.operacion = None
    /\ Texto = Texto_VendoCasa => Extracted.operacion = Some("venta")
    /\ Texto = Texto_ComproOAlquilo => Extracted.operacion = Some("alquiler")

\* "venta alquiler": the sale token is written first, the rental one wins
C17_Witness ==
  /\ Parsed
  /\ Texto = <<"v", "e", "n", "t", "a", " ", "a", "l", "q", "u", "i", "l", "e", "r">>
  /\ Extracted.operacion = Some("alquiler")

\* the filter has this price ceiling in this currency and no price floor
CeilingOnly(c, amount, moneda) ==
  /\ c.precio_max = Some(Num(amount))
  /\ c.moneda = Some(moneda)
  /\ c.precio_min = None

\* C18: without a range or ceiling phrase, the first pair of a currency marker
\* and a number sets priceMax and the currency, the marker written before the
\* number ("usd 2500", "s/ 2500") or after it ("2500 soles"); priceMin stays
\* unset and later pairs are ignored.
C18_FirstCurrencyAmount ==
  Parsed =>
    /\ Texto = Texto_Usd2500
         => resp.status = 200 /\ CeilingOnly(Extracted, 2500, "USD")
    /\ Texto = Texto_S2500
         => resp.status = 200 /\ CeilingOnly(Extracted, 2500, "PEN")
    /\ Texto = Texto_2500Soles
         => resp.status = 200 /\ CeilingOnly(Extracted, 2500, "PEN")
    /\ Texto = Texto_Usd2500S3000
         => resp.status = 200 /\ CeilingOnly(Extracted, 2500, "USD")
    /\ Texto = Texto_2500SolesUsd900
         => resp.status = 200 /\ CeilingOnly(Extracted, 2500, "PEN")

\* the tokens of each amenity flag
AmenityTokens ==
  [ ascensor     |-> { <<"a", "s", "c", "e", "n", "s", "o", "r">> },
    terraza      |-> { <<"t", "e", "r", "r", "a", "z", "a">> },
    amoblado     |-> { <<"a", "m", "o", "b", "l", "a", "d", "o">> },
    pet_friendly |-> { <<"p", "e", "t", " ", "f", "r", "i", "e", "n", "d", "l", "y">>,
                       <<"p", "e", "t", "-", "f", "r", "i", "e", "n", "d", "l", "y">>,
                       <<"m", "a", "s", "c", "o", "t", "a", "s">> } ]

\* C19: each amenity flag of an extracted filter is true or unset, never
\* false, and is true exactly when one of its tokens occurs in the text;
\* parkingMin is 1 when "cochera" occurs and unset otherwise.
C19_AmenityFlagsTrueOrUnset ==
  (Parsed /\ resp.status = 200) =>
    /\ \A flag \in DOMAIN AmenityTokens :
         /\ Extracted[flag] \in {None, Some(TRUE)}
         /\ Extracted[flag] = Some(TRUE) <=> HasToken(Texto, AmenityTokens[flag])
    /\ Extracted.cocheras_min =
         IF HasToken(Texto, { <<"c", "o", "c", "h", "e", "r", "a">> })
           THEN Some(Num(1)) ELSE None

\* "pet-friendly" set the pet flag and left the other flags unset
C19_Witness ==
  /\ Parsed
  /\ Texto = Texto_PetFriendlyConGuion
  /\ Extracted.pet_friendly = Some(TRUE)
  /\ Extracted.ascensor = None
  /\ Extracted.cocheras_min = None

\* C20: areaMin is set only when the text has the marker "m2" or "m²", and
\* for a text whose only number stands directly before the marker ("min 70
\* m2", "70 m²") areaMin is that number with either spelling of the marker:
\* the digit of "m2" is not taken as the number.
C20_AreaIsNumberBeforeMarker ==
  (Parsed /\ resp.status = 200) =>
    /\ Extracted.area_min_m2 # None
         => HasToken(Texto, { <<"m", "2">>, <<"m", "²">> })
    /\ Texto \in {Texto_Min70M2, Texto_70M2Superindice}
         => Extracted.area_min_m2 = Some(Num(70))

\* --------------------------------------------- further claims on the matcher

\* C21: a bound set to 0 is enforced like any other: with priceMax = 0 or
\* areaMax = 0 and a district, the filter is actionable thanks to that bound
\* and no listing whose price, or area, is greater than 0 is returned.
C21_ZeroBoundEnforced ==
  (Searched /\ Len(Filtro.distritos) > 0) =>
    /\ Filtro.precio_max = Some(Num(0)) =>
         /\ resp.status # 400
         /\ resp.status = 200 =>
              \A p \in Listings :
                InResults(p) => ~NumLt(Num(0), GetOr0(p, "precio"))
    /\ Filtro.area_max_m2 = Some(Num(0)) =>
         /\ resp.status # 400
         /\ resp.status = 200 =>
              \A p \in Listings :
                InResults(p) => ~NumLt(Num(0), GetOr0(p, "area_total_m2"))

\* ------------------------------------- further claims about the boundaries

\* the webhook showed listings for the text of its message
Shown ==
  /\ pc = "done"
  /\ req.endpoint = "/bot/telegram/webhook"
  /\ req.query # None
  /\ resp.status = 200
  /\ resp.sent = "avisos"

\* what /buscar answers for the text of the message on the same collection
BuscarAnswer == buscar_consulta(parse_query_to_filters(strip(req.query[1])), data).resp

\* C22: for the same text and the same collection the webhook shows the
\* matching listings in the order /buscar returns them, ascending by price,
\* cut to the first 5.
C22_WebhookOrderAsBuscar ==
  Shown =>
    /\ resp.listed = first5(BuscarAnswer.results)
    /\ \A k, l \in 1..Len(resp.listed) :
         k < l => ~NumLt(sort_key(resp.listed[l]), sort_key(resp.listed[k]))

\* ------------------------------------ further claims about the districts

\* C23: a text whose only district is "san juan de miraflores", a key that
\* holds the key "miraflores" as one of its words, gives the district San
\* Juan de Miraflores alone, not Miraflores as well.
C23_FullPhraseDistrictOnly ==
  (Parsed /\ Texto \in {Texto_SanJuanDeMiraflores, Texto_CasaEnSanJuanDeMiraflores})
    => resp.status = 200 /\ Extracted.distritos = <<"San Juan de Miraflores">>

\* ------------------------------------------------------- noco_upsert_props
\*
\* src/nocodb_client.py.  In the specification of the upsert the variables
\* hold:
\*   req     the NOCO_* settings of the process and the items of each call
\*   data    the records of the NocoDB table, in the order they were inserted
\*   pc      for each call its position (call, get, patch, post, close,
\*           close_raised, done, raised), the index of its current item and
\*           the record it found
\*   resp    for each call the value it returned (ok is None until then),
\*           the results collected and the number of requests it issued
\*   served  the number of calls that ended

\* the concurrent calls of noco_upsert_props
NocoCallers == {"c1", "c2"}

\* the id_fuente values of the items
NocoIds == {"urbania:001", "properati:1001"}

\* the longest list of items of one call
MaxItems == 2

\* which of the NOCO_* environment variables are set
NocoEnvs ==
  [NOCO_API_URL : BOOLEAN, NOCO_TOKEN : BOOLEAN, NOCO_DB : BOOLEAN,
   NOCO_TABLE : BOOLEAN]

\* NOCO_API_URL and NOCO_DB and NOCO_TABLE
noco_configured(env) == env.NOCO_API_URL /\ env.NOCO_DB /\ env.NOCO_TABLE

\* the i-th item of the call c: a dict with its id_fuente
noco_item(c, i) == [id_fuente |-> req.items[c][i], sent_by |-> c]

\* GET records?where=(id_fuente,eq,...)&limit=1: the Id of the first record
\* with this id_fuente, 0 when the list is empty
noco_find(table, id) ==
  LET hits == { k \in 1..Len(table) : table[k].id_fuente = id }
  IN  IF hits = {} THEN 0 ELSE table[Min(hits)].Id

\* the position of a call after the request for its i-th item: the next
\* item, or the return statement, which leaves the block of the client
noco_next(c, i) ==
  IF i < Len(req.items[c])
    THEN [at |-> "get", i |-> i + 1, rec_id |-> 0]
    ELSE [at |-> "close", i |-> i, rec_id |-> 0]

\* resp[c] after one more request that added the result r
noco_result(c, i, r) ==
  [resp[c] EXCEPT !.results = Append(@, r), !.requests = @ + 1]

\* the call starts: without the settings it returns ok = False at once; else
\* it opens its client and goes on to its first GET, with no item to the
\* return statement
NocoCall(c) ==
  /\ pc[c].at = "call"
  /\ IF ~noco_configured(req.env)
       THEN /\ resp' = [resp EXCEPT ![c].ok = Some(FALSE),
                                    ![c].reason = "NOCO_* env vars missing"]
            /\ pc' = [pc EXCEPT ![c].at = "done"]
            /\ served' = served + 1
     ELSE IF req.items[c] = <<>>
       THEN /\ pc' = [pc EXCEPT ![c].at = "close"]
            /\ UNCHANGED <<resp, served>>
     ELSE /\ pc' = [pc EXCEPT ![c] = [at |-> "get", i |-> 1, rec_id |-> 0]]
          /\ UNCHANGED <<resp, served>>
  /\ UNCHANGED <<req, data>>

\* r = await client.get(...): the record of the current item is looked up
NocoGet(c) ==
  /\ pc[c].at = "get"
  /\ LET rec_id == noco_find(data, req.items[c][pc[c].i])
     IN  pc' = [pc EXCEPT ![c].at = IF rec_id # 0 THEN "patch" ELSE "post",
                          ![c].rec_id = rec_id]
  /\ resp' = [resp EXCEPT ![c].requests = @ + 1]
  /\ UNCHANGED <<req, data, served>>

\* upd = await client.patch(...): the record found is overwritten
NocoPatch(c) ==
  /\ pc[c].at = "patch"
  /\ data' = [k \in 1..Len(data) |->
                IF data[k].Id = pc[c].rec_id
                  THEN [data[k] EXCEPT !.data = noco_item(c, pc[c].i)]
                  ELSE data[k]]
  /\ resp' = [resp EXCEPT ![c] =
                noco_result(c, pc[c].i, [action |-> "update", id |-> pc[c].rec_id])]
  /\ pc' = [pc EXCEPT ![c] = noco_next(c, pc[c].i)]
  /\ UNCHANGED <<req, served>>

\* ins = await client.post(...): a new record is inserted
NocoPost(c) ==
  /\ pc[c].at = "post"
  /\ data' = Append(data, [Id |-> Len(data) + 1,
                           id_fuente |-> req.items[c][pc[c].i],
                           data |-> noco_item(c, pc[c].i)])
  /\ resp' = [resp EXCEPT ![c] =
                noco_result(c, pc[c].i, [action |-> "insert", id |-> Len(data) + 1])]
  /\ pc' = [pc EXCEPT ![c] = noco_next(c, pc[c].i)]
  /\ UNCHANGED <<req, served>>

\* raise_for_status(): the request is answered with an error status, nothing
\* is written and the exception leaves the block of the client
NocoHttpError(c) ==
  /\ pc[c].at \in {"get", "patch", "post"}
  /\ pc' = [pc EXCEPT ![c].at = "close_raised"]
  /\ resp' = [resp EXCEPT ![c].requests = @ + 1]
  /\ UNCHANGED <<req, data, served>>

\* the block "async with httpx.AsyncClient" is left and the client closed:
\* the call returns {"ok": True, "results": results} or the exception goes
\* on to the caller
NocoClose(c) ==
  /\ pc[c].at \in {"close", "close_raised"}
  /\ pc' = [pc EXCEPT ![c].at = IF pc[c].at = "close" THEN "done" ELSE "raised"]
  /\ resp' = [resp EXCEPT ![c].ok = IF pc[c].at = "close" THEN Some(TRUE) ELSE @]
  /\ served' = served + 1
  /\ UNCHANGED <<req, data>>

\* the tables a run starts from: empty, or one record of an earlier upsert
NocoTables ==
  { <<>>,
    << [Id |-> 1, id_fuente |-> "urbania:001",
        data |-> [id_fuente |-> "urbania:001", sent_by |-> "c0"]] >> }

InitNoco ==
  /\ pc = [c \in NocoCallers |-> [at |-> "call", i |-> 0, rec_id |-> 0]]
  /\ req \in { [env |-> e, items |-> it] :
                  e \in NocoEnvs, it \in [NocoCallers -> SeqsUpTo(NocoIds, MaxItems)] }
  /\ data \in NocoTables
  /\ resp = [c \in NocoCallers |->
               [ok |-> None, reason |-> "", results |-> <<>>, requests |-> 0]]
  /\ served = 0

NextNoco ==
  \E c \in NocoCallers :
    \/ NocoCall(c)
    \/ NocoGet(c)
    \/ NocoPatch(c)
    \/ NocoPost(c)
    \/ NocoHttpError(c)
    \/ NocoClose(c)

SpecNoco == InitNoco /\ [][NextNoco]_vars

\* ------------------------------------------------- claims about the upsert

\* the number of records of the table with this id_fuente
RecordsOf(id) == Cardinality({ k \in 1..Len(data) : data[k].id_fuente = id })

\* C24: the table keeps at most one record per id_fuente, whatever the
\* sequence or interleaving of calls: a call never stands before a POST for
\* an id_fuente that has a record; and without the NOCO_* settings a call
\* returns ok = false and issues no request.
C24_OneRecordPerIdFuente ==
  /\ \A id \in NocoIds : RecordsOf(id) <= 1
  /\ \A c \in NocoCallers :
       pc[c].at = "post" => RecordsOf(req.items[c][pc[c].i]) = 0
  /\ ~noco_configured(req.env) =>
       \A c \in NocoCallers :
         /\ resp[c].requests = 0
         /\ pc[c].at = "done" => resp[c].ok = Some(FALSE)

\* ---------------------------------------------------- UrbaniaAdapter.buscar
\*
\* src/adapters/urbania.py.  buscar is a coroutine: it gives way at every
\* request it awaits, at the pause after a failed route and when it closes
\* its client, and the actions below are the stretches in between, for one
\* search (out, got, urls and the client are locals of the call, and the
\* adapter object is only read).  In the
\* specification of the adapter the variables hold:
\*   req   the consulta (its districts and operation) and the site: what
\*         each route of each district answers
\*   data  the loop variables of the coroutine: the index of the district
\*         and of the route it is at, and the URLs of the district
\*   resp  out (the listings gathered so far, returned at the end), the
\*         requests issued and the number of pauses, in order
\*   pc    "request", "warmup", "route", "sleep", "close", "done"
\*   served  the number of searches that ended

\* the letters of Latin-1 that NFD splits into an ASCII letter and accents
Accented ==
  <<"À", "Á", "Â", "Ã", "Ä", "Å", "Ç", "È", "É", "Ê", "Ë", "Ì", "Í", "Î",
    "Ï", "Ñ", "Ò", "Ó", "Ô", "Õ", "Ö", "Ù", "Ú", "Û", "Ü", "Ý", "à", "á",
    "â", "ã", "ä", "å", "ç", "è", "é", "ê", "ë", "ì", "í", "î", "ï", "ñ",
    "ò", "ó", "ô", "õ", "ö", "ù", "ú", "û", "ü", "ý", "ÿ">>

\* their ASCII letters, in the same order
Unaccented ==
  <<"A", "A", "A", "A", "A", "A", "C", "E", "E", "E", "E", "I", "I", "I",
    "I", "N", "O", "O", "O", "O", "O", "U", "U", "U", "U", "Y", "a", "a",
    "a", "a", "a", "a", "c", "e", "e", "e", "e", "i", "i", "i", "i", "n",
    "o", "o", "o", "o", "o", "u", "u", "u", "u", "y", "y">>

\* the other characters of Latin-1 above 7F (written as the characters
\* themselves): NFD leaves them and encode("ascii", "ignore") drops them
NonAscii ==
  {"", "", "", "", "", "", "", "", "", "", "", "", "", "",
    "", "", "", "", "", "", "", "", "", "", "", "", "", "",
    "", "", "", "", " ", "¡", "¢", "£", "¤", "¥", "¦", "§", "¨", "©",
    "ª", "«", "¬", "­", "®", "¯", "°", "±", "²", "³", "´", "µ", "¶", "·",
    "¸", "¹", "º", "»", "¼", "½", "¾", "¿", "Æ", "Ð", "×", "Ø", "Þ", "ß",
    "æ", "ð", "÷", "ø", "þ"}

\* the ASCII letter of each accented letter
Unaccent ==
  [ ch \in { Accented[j] : j \in 1..Len(Accented) } |->
      Unaccented[CHOOSE j \in 1..Len(Accented) : Accented[j] = ch] ]

\* unicodedata.normalize("NFD", s).encode("ascii", "ignore").decode("utf-8")
RECURSIVE to_ascii(_)
to_ascii(s) ==
  IF s = <<>> THEN <<>>
  ELSE ( IF Head(s) \in DOMAIN Unaccent THEN <<Unaccent[Head(s)]>>
         ELSE IF Head(s) \in NonAscii THEN <<>>
         ELSE <<Head(s)>> ) \o to_ascii(Tail(s))

\* the character class [a-z0-9]
IsSlugChar(ch) ==
  IsDigit(ch) \/ \E j \in 1..26 : LowerCase[j] = ch

\* the text without its leading characters outside [a-z0-9]
RECURSIVE skip_separators(_)
skip_separators(s) ==
  IF s # <<>> /\ ~IsSlugChar(Head(s)) THEN skip_separators(Tail(s)) ELSE s

\* re.sub(r"[^a-z0-9]+", "-", s)
RECURSIVE hyphenate(_)
hyphenate(s) ==
  IF s = <<>> THEN <<>>
  ELSE IF IsSlugChar(Head(s)) THEN <<Head(s)>> \o hyphenate(Tail(s))
  ELSE <<"-">> \o hyphenate(skip_separators(s))

\* str.strip("-") of a text in which no two hyphens are adjacent
strip_hyphens(s) ==
  LET a == IF s # <<>> /\ Head(s) = "-" THEN Tail(s) ELSE s
  IN  IF a # <<>> /\ a[Len(a)] = "-" THEN SubSeq(a, 1, Len(a) - 1) ELSE a

\* _slug(s)
slug(s) == strip_hyphens(hyphenate(lower(to_ascii(s))))

\* the cased characters: the letters with a capital or a small form, and
\* those that are lower-case without a capital in Latin-1
IsCased(ch) ==
  \/ \E j \in 1..Len(UpperCase) : UpperCase[j] = ch \/ LowerCase[j] = ch
  \/ ch \in {"ª", "µ", "º", "ß", "ÿ"}

\* the title-case form of a cased character: its capital; "Ss" for the sharp
\* s; for the micro sign and the y with diaeresis the capitals U+039C and
\* U+0178, which lie outside Latin-1
TitleChar(ch) ==
  IF \E j \in 1..Len(LowerCase) : LowerCase[j] = ch
    THEN <<UpperCase[CHOOSE j \in 1..Len(LowerCase) : LowerCase[j] = ch]>>
  ELSE IF ch = "ß" THEN <<"S", "s">>
  ELSE IF ch = "µ" THEN <<"Μ">>
  ELSE IF ch = "ÿ" THEN <<"\\u0178">>
  ELSE <<ch>>

\* str.title() from a position on: a cased character after a cased one is
\* lowered, any other cased character is put in title case
RECURSIVE title_from(_, _)
title_from(s, after_cased) ==
  IF s = <<>> THEN <<>>
  ELSE IF ~IsCased(Head(s)) THEN <<Head(s)>> \o title_from(Tail(s), FALSE)
  ELSE ( IF after_cased THEN <<LowerChar(Head(s))>> ELSE TitleChar(Head(s)) )
         \o title_from(Tail(s), TRUE)

\* str.title()
title(s) == title_from(s, FALSE)

\* the three route patterns, in their listed order
ROUTE_PATTERNS == <<"https://urbania.pe/buscar/{operacion}-de-departamentos-en-{slug}-lima",
                    "https://urbania.pe/buscar/{operacion}/{slug}/departamento",
                    "https://urbania.pe/buscar/{operacion}-de-departamentos-en-{slug}">>

Distrito_miraflores == <<"m", "i", "r", "a", "f", "l", "o", "r", "e", "s">>

Distrito_SAN_isidro == <<"S", "A", "N", " ", "i", "s", "i", "d", "r", "o">>

\* the districts a consulta names
UrbaniaDistritos == {Distrito_miraflores, Distrito_SAN_isidro}

\* the longest list of districts of a consulta
MaxDistritos == 2

\* what a GET can lead to: a page with cards, a page without any, a status
\* other than 200, an exception
RouteOutcomes == {"cards", "empty", "status", "error"}

\* the operation of the consulta: unset, or a text
UrbaniaOperaciones ==
  { None, Some(<<"A", "L", "Q", "U", "I", "L", "E", "R">>),
    Some(<<"c", "o", "m", "p", "r", "a">>) }

\* (consulta.get("operacion") or "venta").lower(), "venta" unless it is one of
\* the two operations
urbania_operacion(consulta) ==
  IF consulta.operacion = None \/ consulta.operacion[1] = <<>> THEN "venta"
  ELSE IF lower(consulta.operacion[1]) = <<"a", "l", "q", "u", "i", "l", "e", "r">> THEN "alquiler"
  ELSE "venta"

\* a URL of the site: a route pattern and what is put in its two places
Url(pattern, operacion, slug_d) ==
  [url |-> pattern, operacion |-> operacion, slug |-> slug_d]

\* the URLs of a slug, one per route pattern
urls_of(operacion, slug_d) ==
  [i \in 1..Len(ROUTE_PATTERNS) |-> Url(ROUTE_PATTERNS[i], operacion, slug_d)]

\* _build_urls(operacion, distrito)
build_urls(operacion, distrito) == urls_of(operacion, slug(distrito))

\* _warmup: client.get(self.HOME), whose status and exceptions are only
\* printed
HomeRequest == Url("https://urbania.pe/", "", <<>>)

\* _parse_cards(r.text, distrito) for a page with cards: the listings of the
\* page, each known by the route it was found on and its place on the page,
\* with the district in title case
parsed_cards(distrito, i) ==
  << [fuente |-> "urbania", distrito |-> title(distrito), route |-> i, card |-> 1],
     [fuente |-> "urbania", distrito |-> title(distrito), route |-> i, card |-> 2] >>

\* faulty variant of after_no_cards: the routes left of the district are
\* not tried
after_no_cards_next_distrito(k, i) == [k |-> k + 1, i |-> 1]

\* where the loops are after route i of district k gave no card: at the next
\* route, after the last one at the next district
after_no_cards(k, i) ==
  IF i < Len(ROUTE_PATTERNS) THEN [k |-> k, i |-> i + 1] ELSE [k |-> k + 1, i |-> 1]

\* where the loops are after a route of district k gave cards (break)
after_cards(k) == [k |-> k + 1, i |-> 1]

\* the coroutine goes on from the position at with out and n pauses behind
\* it: entering a district it builds the URLs of the district; it requests
\* the URL the loops are at, or, the districts done, leaves the block of the
\* client
Proceed(at, out, n) ==
  IF at.k <= Len(req.consulta.distritos)
    THEN /\ pc' = "route"
         /\ data' = [k |-> at.k, i |-> at.i,
                     urls |-> IF at.i = 1
                                THEN build_urls(urbania_operacion(req.consulta),
                                                req.consulta.distritos[at.k])
                                ELSE data.urls]
         /\ resp' = [got |-> out, sleeps |-> n,
                     requests |-> Append(resp.requests, data'.urls[at.i])]
         /\ UNCHANGED <<req, served>>
    ELSE /\ pc' = "close"
         /\ data' = [k |-> at.k, i |-> at.i, urls |-> data.urls]
         /\ resp' = [got |-> out, sleeps |-> n, requests |-> resp.requests]
         /\ UNCHANGED <<req, served>>

\* UrbaniaAdapter.buscar(consulta) is called: without districts it returns []
\* at once, else it opens its client and requests the home page
UrbaniaBuscar ==
  /\ pc = "request"
  /\ req.endpoint = "UrbaniaAdapter.buscar"
  /\ IF req.consulta.distritos = <<>>
       THEN /\ pc' = "done"
            /\ served' = served + 1
            /\ UNCHANGED resp
       ELSE /\ pc' = "warmup"
            /\ resp' = [resp EXCEPT !.requests = <<HomeRequest>>]
            /\ UNCHANGED served
  /\ UNCHANGED <<req, data>>

\* the warm-up request ended, in whatever way: the loop over the districts
\* begins
UrbaniaWarmup ==
  /\ pc = "warmup"
  /\ Proceed([k |-> 1, i |-> 1], resp.got, resp.sleeps)

\* the request of a route ended: cards end the routes of the district and
\* are added to out, a page without cards leads to the next route, a status
\* other than 200 and an exception to a pause
UrbaniaRoute ==
  /\ pc = "route"
  /\ LET answer == req.site.pages[<<req.consulta.distritos[data.k], data.i>>]
     IN  IF answer = "cards"
           THEN Proceed(after_cards(data.k),
                        resp.got \o parsed_cards(req.consulta.distritos[data.k], data.i),
                        resp.sleeps)
         ELSE IF answer = "empty"
           THEN Proceed(after_no_cards(data.k, data.i), resp.got, resp.sleeps)
         ELSE /\ pc' = "sleep"
              /\ resp' = [resp EXCEPT !.sleeps = @ + 1]
              /\ UNCHANGED <<req, data, served>>

\* asyncio.sleep(0.8) ended: the next route
UrbaniaSleep ==
  /\ pc = "sleep"
  /\ Proceed(after_no_cards(data.k, data.i), resp.got, resp.sleeps)

\* the client is closed and buscar returns out
UrbaniaClose ==
  /\ pc = "close"
  /\ pc' = "done"
  /\ served' = served + 1
  /\ UNCHANGED <<req, data, resp>>

UrbaniaConsultas ==
  { [distritos |-> d, operacion |-> o] :
      d \in SeqsUpTo(UrbaniaDistritos, MaxDistritos), o \in UrbaniaOperaciones }

\* the sites a search runs against: what each route of each district answers
UrbaniaSites ==
  [ pages : [UrbaniaDistritos \X (1..Len(ROUTE_PATTERNS)) -> RouteOutcomes] ]

\* the site answers with an empty page for the districts the consulta does
\* not name, which are never requested
OnlyNamed(r) ==
  \A d \in UrbaniaDistritos :
    (\A j \in 1..Len(r.consulta.distritos) : r.consulta.distritos[j] # d)
      => \A i \in 1..Len(ROUTE_PATTERNS) : r.site.pages[<<d, i>>] = "empty"

InitUrbania ==
  /\ pc = "request"
  /\ req \in { [endpoint |-> "UrbaniaAdapter.buscar", consulta |-> c, site |-> w] :
                 c \in UrbaniaConsultas, w \in UrbaniaSites }
  /\ OnlyNamed(req)
  /\ data = [k |-> 0, i |-> 0, urls |-> <<>>]
  /\ resp = [got |-> <<>>, requests |-> <<>>, sleeps |-> 0]
  /\ served = 0

NextUrbania ==
  UrbaniaBuscar \/ UrbaniaWarmup \/ UrbaniaRoute \/ UrbaniaSleep \/ UrbaniaClose

SpecUrbania == InitUrbania /\ [][NextUrbania]_vars

\* ------------------------------------------------ claims about the adapter

\* the routes with cards for a district, and the routes the adapter has to
\* request for it: up to the first with cards, all of them when there is none
RoutesWithCards(d) ==
  { i \in 1..Len(ROUTE_PATTERNS) : req.site.pages[<<d, i>>] = "cards" }

LastRoute(d) ==
  IF RoutesWithCards(d) = {} THEN Len(ROUTE_PATTERNS) ELSE Min(RoutesWithCards(d))

\* the sequences of a sequence of sequences, one after the other
RECURSIVE Flatten(_)
Flatten(ss) == IF ss = <<>> THEN <<>> ELSE Head(ss) \o Flatten(Tail(ss))

\* C25: with no district the adapter returns an empty list and issues no
\* request; otherwise it requests, for each district in the order of the
\* filter, the routes in their listed order up to the first that gives a
\* card, whatever went wrong on the routes before (a status other than 200,
\* an exception, a page without cards), and returns the cards of the
\* districts one after the other in district order.
C25_UrbaniaRoutesFallBack ==
  (pc = "done") =>
    LET ds == req.consulta.distritos
        op == IF req.consulta.operacion = Some(<<"A", "L", "Q", "U", "I", "L", "E", "R">>)
                THEN "alquiler" ELSE "venta"
    IN  /\ ds = <<>> => resp.got = <<>> /\ resp.requests = <<>>
        /\ ds # <<>> =>
             /\ Head(resp.requests).url = "https://urbania.pe/"
             /\ Tail(resp.requests) =
                  Flatten([k \in 1..Len(ds) |->
                            [i \in 1..LastRoute(ds[k]) |->
                              [url |-> ROUTE_PATTERNS[i],
                               operacion |-> op,
                               slug |-> slug(ds[k])]]])
             /\ resp.got =
                  Flatten([k \in 1..Len(ds) |->
                            IF RoutesWithCards(ds[k]) = {} THEN <<>>
                            ELSE parsed_cards(ds[k], LastRoute(ds[k]))])

\* the first district answered with a status other than 200, then with an
\* exception, then with cards on its third route; the second district was
\* still searched and its cards come after those of the first
C25_Witness ==
  /\ pc = "done"
  /\ req.consulta.distritos = <<Distrito_SAN_isidro, Distrito_miraflores>>
  /\ req.site.pages[<<Distrito_SAN_isidro, 1>>] = "status"
  /\ req.site.pages[<<Distrito_SAN_isidro, 2>>] = "error"
  /\ req.site.pages[<<Distrito_SAN_isidro, 3>>] = "cards"
  /\ req.site.pages[<<Distrito_miraflores, 1>>] = "cards"
  /\ resp.got = parsed_cards(Distrito_SAN_isidro, 3) \o parsed_cards(Distrito_miraflores, 1)
  /\ resp.got[1].distrito = <<"S", "a", "n", " ", "I", "s", "i", "d", "r", "o">>
  /\ resp.requests[2].slug = <<"s", "a", "n", "-", "i", "s", "i", "d", "r", "o">>
  /\ Len(resp.requests) = 5
  /\ resp.sleeps = 2

====
